---------------------------- MODULE Spec2Model ----------------------------
(***************************************************************************)
(* Voxgig Struct (TypeScript port, src/ts/src/struct.ts lines 1-1533).     *)
(*                                                                         *)
(* The library manipulates JSON-like trees by reference, so the model      *)
(* keeps an explicit heap of nodes: a value is a scalar or a reference to  *)
(* a heap object, and every library function is an operator that takes a   *)
(* machine record m (heap, last return value, pending exception, call      *)
(* log, closure variables of the running merge) and yields the machine     *)
(* after the call.  Strings are sequences of   *)
(* character codes, so the regular expressions, split, sort and the        *)
(* number/string conversions of the code are computed, not assumed.        *)
(***************************************************************************)
EXTENDS Integers, Sequences, FiniteSets, TLC

VARIABLES
  pc,       \* "idle" between calls, "called" while a call is pending,
            \* "done" when it has returned or thrown
  op,       \* the function the caller called last
  call,     \* the caller's arguments, as literals
  argv,     \* the operation called and its arguments, as the values passed
  calls,    \* the number of calls the caller has made on this heap
  log,      \* the steps an observer has noted of the last call
  heap,     \* the objects of the program
  dataRef,  \* the caller's data argument
  specRef,  \* the caller's spec argument
  errsRef,  \* the caller's collecterrs argument
  ret,      \* the value the call returned, or the message of its exception
  thrown    \* the kind of exception the call raised, if any

vars == <<pc, op, call, argv, calls, log, heap, dataRef, specRef, errsRef, ret, thrown>>

---------------------------------------------------------------------------
(* Characters and strings.  A string is a sequence of code units.          *)

\* String constants (struct.ts 56-84), spelled as code units.
S_MT == << >>
S_BT == <<96>>                                    \* '`'
S_DS == <<36>>                                    \* '$'
S_DT == <<46>>                                    \* '.'
S_DTOP == <<36, 84, 79, 80>>                      \* '$TOP'
S_DERRS == <<36, 69, 82, 82, 83>>                 \* '$ERRS'
S_DKEY == <<96, 36, 75, 69, 89, 96>>              \* '`$KEY`'
S_DMETA == <<96, 36, 77, 69, 84, 65, 96>>         \* '`$META`'
S_KEY == <<75, 69, 89>>                           \* 'KEY'
S_DOPEN == <<96, 36, 79, 80, 69, 78, 96>>         \* '`$OPEN`'
S_length == <<108, 101, 110, 103, 116, 104>>      \* 'length'
S_toString == <<116, 111, 83, 116, 114, 105, 110, 103>>   \* 'toString'

IsDigit(c) == c \in 48..57
IsUpper(c) == c \in 65..90

\* s.includes(c) for a one-character needle.
Includes(s, c) == \E i \in 1..Len(s) : s[i] = c

\* s.startsWith(p)
StartsWith(s, p) == Len(p) <= Len(s) /\ SubSeq(s, 1, Len(p)) = p

\* Code-unit order of two strings, as Array.prototype.sort() compares them.
StrLess(a, b) ==
  LET n == IF Len(a) < Len(b) THEN Len(a) ELSE Len(b)
      d == {i \in 1..n : a[i] # b[i]}
  IN IF d = {} THEN Len(a) < Len(b)
     ELSE LET i == CHOOSE x \in d : \A y \in d : x <= y IN a[i] < b[i]

\* The elements of the sequence xs in the order Less(_, _), equal elements
\* in their original order (a stable sort).
SortBy(xs, Less(_, _)) ==
  LET n == Len(xs)
      rank == << >> \o [i \in 1..n |->
                 Cardinality({j \in 1..n : Less(xs[j], xs[i]) \/
                                            (~Less(xs[i], xs[j]) /\ j < i)})]
  IN << >> \o [r \in 1..n |-> xs[CHOOSE i \in 1..n : rank[i] = r - 1]]

\* ks.sort() for a list of strings.
SortStrs(ks) == SortBy(ks, StrLess)

\* The elements of a set of integers in ascending order.
Ascending(S) ==
  << >> \o [k \in 1..Cardinality(S) |-> CHOOSE x \in S : Cardinality({y \in S : y <= x}) = k]

\* '' + n for an integer n.
RECURSIVE NatToStr(_)
NatToStr(n) ==
  IF n < 10 THEN <<48 + n>> ELSE NatToStr(n \div 10) \o <<48 + (n % 10)>>

NumToStr(n) == IF n < 0 THEN <<45>> \o NatToStr(-n) ELSE NatToStr(n)

RECURSIVE DigitsVal(_, _)
DigitsVal(s, acc) ==
  IF s = << >> THEN acc ELSE DigitsVal(Tail(s), acc * 10 + (s[1] - 48))

AllDigits(s) == s # << >> /\ \A i \in 1..Len(s) : IsDigit(s[i])

\* +s for a string s: decimal integers, optionally signed; every other string
\* of the model's alphabet is NaN (nan |-> TRUE).
StrToNum(s) ==
  IF AllDigits(s) THEN [nan |-> FALSE, n |-> DigitsVal(s, 0)]
  ELSE IF Len(s) > 1 /\ s[1] = 45 /\ AllDigits(Tail(s))
    THEN [nan |-> FALSE, n |-> 0 - DigitsVal(Tail(s), 0)]
  ELSE [nan |-> TRUE, n |-> 0]

\* A canonical array index: the string form of a non-negative integer.
IsIndexStr(s) == AllDigits(s) /\ (Len(s) = 1 \/ s[1] # 48)

\* s.split('.')
Split(s) ==
  LET dots == Ascending({i \in 1..Len(s) : s[i] = S_DT[1]})
      n == Len(dots)
  IN [k \in 1..(n + 1) |->
        SubSeq(s, IF k = 1 THEN 1 ELSE dots[k - 1] + 1,
                  IF k = n + 1 THEN Len(s) ELSE dots[k] - 1)]

\* s.replace(/\./g, '')
DropDots(s) == SelectSeq(s, LAMBDA c : c # S_DT[1])

RECURSIVE JoinWith(_, _)
JoinWith(ss, sep) ==
  IF ss = << >> THEN << >>
  ELSE IF Len(ss) = 1 THEN ss[1]
  ELSE ss[1] \o sep \o JoinWith(Tail(ss), sep)

---------------------------------------------------------------------------
(* Values and the heap.                                                    *)

UNDEF == [t |-> "undef"]
NULL == [t |-> "null"]
Num(n) == [t |-> "num", n |-> n]
Str(s) == [t |-> "str", s |-> s]
Bool(b) == [t |-> "bool", b |-> b]
Ref(a) == [t |-> "ref", a |-> a]
Fn(f) == [t |-> "func", f |-> f]

IsRef(v) == v.t = "ref"

\* A fresh machine: empty heap, nothing returned, nothing thrown.
NoThrow == "none"
M0 == [h |-> << >>, ret |-> UNDEF, thrown |-> NoThrow, log |-> << >>,
       env |-> [out |-> UNDEF, cur |-> << >>]]

Ok(m) == m.thrown = NoThrow
Ret(m, v) == IF Ok(m) THEN [m EXCEPT !.ret = v] ELSE m

\* A pending exception of kind e ("TypeError", "Error"); ret holds its message.
ThrowMsg(m, e, msg) == IF Ok(m) THEN [m EXCEPT !.thrown = e, !.ret = msg] ELSE m
Throw(m, e) == ThrowMsg(m, e, UNDEF)

\* Sequencing.  Then(m1, K) is the rest K of a computation run on the machine
\* m1 a step has left, unless that step threw; With(v, K) names a value.
Then(m1, K(_)) == IF m1.thrown # NoThrow THEN m1 ELSE K(m1)
With(v, K(_)) == K(v)

\* Allocate an object; its address is returned in ret.
Alloc(m, obj) ==
  IF Ok(m) THEN [m EXCEPT !.h = Append(m.h, obj), !.ret = Ref(Len(m.h) + 1)]
  ELSE m

NewMap(m) == Alloc(m, [k |-> "map", es |-> << >>])
NewList(m, vs) == Alloc(m, [k |-> "list", es |-> vs])

Obj(m, v) == m.h[v.a]

---------------------------------------------------------------------------
(* Value predicates and safe accessors (struct.ts 155-231, 344-397).       *)

TypeOf(v) ==
  CASE v.t = "undef" -> "undefined"
    [] v.t = "null" -> "object"
    [] v.t = "ref" -> "object"
    [] v.t = "num" -> "number"
    [] v.t = "str" -> "string"
    [] v.t = "bool" -> "boolean"
    [] v.t = "func" -> "function"

\* null == v
IsNullish(v) == v.t \in {"undef", "null"}

isnode(m, v) == IsRef(v) /\ Obj(m, v).k \in {"map", "list"}
ismap(m, v) == IsRef(v) /\ Obj(m, v).k = "map"
islist(m, v) == IsRef(v) /\ Obj(m, v).k = "list"
isfunc(v) == v.t = "func"
iskey(key) == (key.t = "str" /\ key.s # S_MT) \/ key.t = "num"

\* Index of own key ks in the entries of a map object, 0 if not present.
EntryIdx(es, ks) ==
  IF \E i \in 1..Len(es) : es[i].k = ks
  THEN CHOOSE i \in 1..Len(es) : es[i].k = ks
  ELSE 0

\* String(key), the property name JavaScript derives from a key value.
RECURSIVE KeyStr(_, _)
KeyStr(m, key) ==
  CASE key.t = "str" -> key.s
    [] key.t = "num" -> NumToStr(key.n)
    [] key.t = "null" -> <<110, 117, 108, 108>>
    [] key.t = "undef" -> <<117, 110, 100, 101, 102, 105, 110, 101, 100>>
    [] key.t = "bool" -> IF key.b THEN <<116, 114, 117, 101>>
                         ELSE <<102, 97, 108, 115, 101>>
    [] key.t = "func" -> <<102, 110>>
    [] key.t = "ref" ->
         IF Obj(m, key).k = "list"
         THEN JoinWith([i \in 1..Len(Obj(m, key).es) |->
                         IF IsNullish(Obj(m, key).es[i]) THEN S_MT
                         ELSE KeyStr(m, Obj(m, key).es[i])], <<44>>)
         ELSE <<91, 111, 98, 106, 101, 99, 116, 32, 79, 98, 106, 101, 99, 116, 93>>

\* val[key] for a node val: the own entries of a map, the elements and the
\* length of a list, and otherwise what the node inherits.  Of the names
\* inherited from Object.prototype and Array.prototype the model has
\* 'toString', a function; the others are outside its key alphabet.
Index(m, val, key) ==
  LET o == Obj(m, val)
      ks == KeyStr(m, key)
      inherited == IF ks = S_toString THEN Fn(S_toString) ELSE UNDEF
  IN IF o.k = "map"
     THEN LET i == EntryIdx(o.es, ks)
          IN IF i > 0 THEN o.es[i].v ELSE inherited
     ELSE IF IsIndexStr(ks)
       THEN LET n == DigitsVal(ks, 0)
            IN IF n < Len(o.es) THEN o.es[n + 1] ELSE UNDEF
     ELSE IF ks = S_length THEN Num(Len(o.es))
     ELSE inherited

\* getprop(val, key, alt) (struct.ts 196-212)
getprop3(m, val, key, alt) ==
  IF val = UNDEF \/ key = UNDEF THEN alt
  ELSE LET out == IF isnode(m, val) THEN Index(m, val, key) ELSE alt
       IN IF out = UNDEF THEN alt ELSE out

getprop(m, val, key) == getprop3(m, val, key, UNDEF)

\* A key test that finds every key.
HasKeyAlways(m, val, key) == TRUE

\* haskey(val, key) (struct.ts 223-225)
haskey(m, val, key) == getprop(m, val, key) # UNDEF

\* Object.keys(o) of a map object: index-like keys in ascending numeric
\* order, then the other keys in insertion order.
IdxLess(a, b) == DigitsVal(a, 0) < DigitsVal(b, 0)
SortIdx(ks) == SortBy(ks, IdxLess)

ObjectKeys(o) ==
  LET all == << >> \o [i \in 1..Len(o.es) |-> o.es[i].k]
  IN SortIdx(SelectSeq(all, IsIndexStr)) \o
     SelectSeq(all, LAMBDA k : ~IsIndexStr(k))

\* A keysof that leaves the keys of a map in the order of Object.keys.
KeysofUnsorted(m, val) ==
  IF ~isnode(m, val) THEN << >>
  ELSE IF ismap(m, val) THEN ObjectKeys(Obj(m, val))
  ELSE << >> \o [i \in 1..Len(Obj(m, val).es) |-> NatToStr(i - 1)]

\* keysof(val) (struct.ts 216-219); the result is a list of strings.
keysof(m, val) ==
  IF ~isnode(m, val) THEN << >>
  ELSE IF ismap(m, val) THEN SortStrs(ObjectKeys(Obj(m, val)))
  ELSE << >> \o [i \in 1..Len(Obj(m, val).es) |-> NatToStr(i - 1)]

\* items(val) (struct.ts 229-231): <<key, value>> pairs in keysof order.
items(m, val) ==
  LET ks == keysof(m, val)
  IN << >> \o [i \in 1..Len(ks) |-> <<Str(ks[i]), Index(m, val, Str(ks[i]))>>]

\* The arrays keysof and items return: a new list of strings, and a new list
\* of new two-element lists.
KeysofList(m, val) ==
  NewList(m, [i \in 1..Len(keysof(m, val)) |-> Str(keysof(m, val)[i])])

ItemsList(m, val) ==
  LET its == items(m, val)
      n == Len(its)
      pairs == [i \in 1..n |-> [k |-> "list", es |-> <<its[i][1], its[i][2]>>]]
  IN NewList([m EXCEPT !.h = m.h \o pairs], [i \in 1..n |-> Ref(Len(m.h) + i)])

\* isempty(val) (struct.ts 181-185)
isempty(m, val) ==
  \/ IsNullish(val)
  \/ val = Str(S_MT)
  \/ (IsRef(val) /\ Obj(m, val).es = << >>)

\* Remove element i (1-based) of a sequence.
RemoveAt(s, i) == SubSeq(s, 1, i - 1) \o SubSeq(s, i + 1, Len(s))

\* A setprop that writes a list element at the index given, as parent[key] =
\* val does, leaving absent elements below it.
SetpropAtIndex(m, parent, key, val) ==
  IF ~Ok(m) \/ ~iskey(key) \/ ~islist(m, parent) \/ val = UNDEF THEN m
  ELSE LET kn == IF key.t = "num" THEN [nan |-> FALSE, n |-> key.n]
                 ELSE StrToNum(key.s)
           es == Obj(m, parent).es
       IN IF kn.nan \/ kn.n < 0 THEN m
          ELSE IF Len(es) <= kn.n
            THEN [m EXCEPT !.h[parent.a].es =
                    es \o [j \in 1..(kn.n - Len(es)) |-> UNDEF] \o <<val>>]
            ELSE [m EXCEPT !.h[parent.a].es[kn.n + 1] = val]

\* A setprop that changes nothing.
SetpropIgnored(m, parent, key, val) == m

\* setprop(parent, key, val) (struct.ts 351-397); mutates the parent node.
setprop(m, parent, key, val) ==
  IF ~Ok(m) \/ ~iskey(key) THEN m
  ELSE IF ismap(m, parent) THEN
    LET ks == KeyStr(m, key)
        es == Obj(m, parent).es
        i == EntryIdx(es, ks)
    IN IF val = UNDEF
       THEN IF i = 0 THEN m ELSE [m EXCEPT !.h[parent.a].es = RemoveAt(es, i)]
       ELSE IF i = 0
         THEN [m EXCEPT !.h[parent.a].es = Append(es, [k |-> ks, v |-> val])]
         ELSE [m EXCEPT !.h[parent.a].es[i].v = val]
  ELSE IF islist(m, parent) THEN
    LET kn == IF key.t = "num" THEN [nan |-> FALSE, n |-> key.n]
              ELSE StrToNum(key.s)
        keyI == kn.n
        es == Obj(m, parent).es
    IN IF kn.nan THEN m
       ELSE IF val = UNDEF
         THEN IF 0 <= keyI /\ keyI < Len(es)
              THEN [m EXCEPT !.h[parent.a].es = RemoveAt(es, keyI + 1)]
              ELSE m
       ELSE IF 0 <= keyI
         THEN IF Len(es) <= keyI
              THEN [m EXCEPT !.h[parent.a].es = Append(es, val)]
              ELSE [m EXCEPT !.h[parent.a].es[keyI + 1] = val]
       ELSE [m EXCEPT !.h[parent.a].es = <<val>> \o es]
  ELSE m

---------------------------------------------------------------------------
(* stringify, pathify and clone (struct.ts 259-341).                       *)

T_null == <<110, 117, 108, 108>>                                   \* 'null'
T_undefined == <<117, 110, 100, 101, 102, 105, 110, 101, 100>>     \* 'undefined'
T_root == <<60, 114, 111, 111, 116, 62>>                           \* '<root>'
T_funcref == <<96, 36, 70, 85, 78, 67, 84, 73, 79, 78, 58>>        \* '`$FUNCTION:'

\* JSON.stringify(v) as a string; sorted says whether map keys are emitted in
\* sorted order (the replacer of stringify) or in Object.keys order.
\* Entries and elements that are undefined or functions follow JSON's rules.
RECURSIVE JsonStr(_, _, _)
JsonStr(m, v, sorted) ==
  CASE v.t = "num" -> NumToStr(v.n)
    [] v.t = "str" -> <<34>> \o v.s \o <<34>>
    [] v.t = "bool" -> IF v.b THEN <<116, 114, 117, 101>> ELSE <<102, 97, 108, 115, 101>>
    [] v.t \in {"null", "undef", "func"} -> T_null
    [] v.t = "ref" ->
         LET o == Obj(m, v)
         IN IF o.k = "list"
            THEN <<91>> \o JoinWith([i \in 1..Len(o.es) |-> JsonStr(m, o.es[i], sorted)],
                                    <<44>>) \o <<93>>
            ELSE LET ks0 == IF sorted THEN SortStrs(ObjectKeys(o)) ELSE ObjectKeys(o)
                     ks == SelectSeq(ks0, LAMBDA k :
                             o.es[EntryIdx(o.es, k)].v.t \notin {"undef", "func"})
                 IN <<123>> \o
                    JoinWith([i \in 1..Len(ks) |->
                               <<34>> \o ks[i] \o <<34, 58>> \o
                               JsonStr(m, o.es[EntryIdx(o.es, ks[i])].v, sorted)],
                             <<44>>) \o <<125>>

\* stringify(val, maxlen) (struct.ts 260-296); maxlen < 0 stands for "absent".
stringify2(m, val, maxlen) ==
  IF val = UNDEF THEN S_MT
  ELSE LET js == IF val.t = "func" THEN T_undefined ELSE JsonStr(m, val, TRUE)
           str == SelectSeq(js, LAMBDA c : c # 34)
       IN IF maxlen >= 0 /\ maxlen < Len(str)
          THEN SubSeq(str, 1, IF maxlen - 3 < 0 THEN 0 ELSE maxlen - 3) \o <<46, 46, 46>>
          ELSE str

stringify(m, val) == stringify2(m, val, -1)

\* pathify(val, from) for a path that is a list of strings (struct.ts 300-329).
pathify(path, from) ==
  LET start == IF from > -1 THEN from ELSE 0
      p == SubSeq(path, start + 1, Len(path))
  IN IF p = << >> THEN T_root
     ELSE JoinWith([i \in 1..Len(p) |-> DropDots(p[i])], S_DT)

\* The functions of a value in JSON.stringify's traversal order: the refs
\* array the replacer of clone fills.
RECURSIVE CloneRefs(_, _)
CloneRefs(m, v) ==
  IF v.t = "func" THEN <<v>>
  ELSE IF v.t # "ref" THEN << >>
  ELSE LET o == Obj(m, v)
           RECURSIVE Cat(_)
           Cat(vs) == IF vs = << >> THEN << >>
                      ELSE CloneRefs(m, vs[1]) \o Cat(Tail(vs))
       IN IF o.k = "list" THEN Cat(o.es)
          ELSE LET ks == ObjectKeys(o)
               IN Cat([i \in 1..Len(ks) |-> o.es[EntryIdx(o.es, ks[i])].v])

\* The value the reviver of clone yields for a parsed scalar: a string of the
\* form `$FUNCTION:n` becomes refs[n] (undefined when there is no such ref).
Revive(v, refs) ==
  IF v.t = "str" /\ Len(v.s) > Len(T_funcref) + 1
     /\ SubSeq(v.s, 1, Len(T_funcref)) = T_funcref
     /\ v.s[Len(v.s)] = S_BT[1]
     /\ AllDigits(SubSeq(v.s, Len(T_funcref) + 1, Len(v.s) - 1))
  THEN LET d == SubSeq(v.s, Len(T_funcref) + 1, Len(v.s) - 1)
           n == DigitsVal(d, 0)
       IN IF IsIndexStr(d) /\ n < Len(refs) THEN refs[n + 1] ELSE UNDEF
  ELSE v

\* The index, among the functions met so far, that the replacer gives a
\* function value; fI counts the functions already replaced.
RECURSIVE CloneR(_, _, _, _)
RECURSIVE CloneSeq(_, _, _, _, _)

\* Clone the values vs left to right; ret is <<clones, functions seen>>.
CloneSeq(m, vs, refs, fI, acc) ==
  LET m1 == CloneR(m, vs[1], refs, fI)
  IN CASE vs = << >> -> Ret(m, <<acc, fI>>)
       [] vs # << >> /\ m1.thrown # NoThrow -> m1
       [] OTHER -> CloneSeq(m1, Tail(vs), refs, m1.ret[2], Append(acc, m1.ret[1]))

\* JSON.parse(JSON.stringify(v, replacer), reviver); ret is <<copy, fI'>>.
CloneR(m, v, refs, fI) ==
  CASE v.t = "func" -> Ret(m, <<refs[fI + 1], fI + 1>>)
    [] v.t = "undef" -> Ret(m, <<UNDEF, fI>>)
    [] v.t \in {"num", "bool", "null"} -> Ret(m, <<v, fI>>)
    [] v.t = "str" -> Ret(m, <<Revive(v, refs), fI>>)
    [] v.t = "ref" ->
         LET o == Obj(m, v)
             ks == SelectSeq(ObjectKeys(o), LAMBDA k : o.es[EntryIdx(o.es, k)].v # UNDEF)
             vs == IF o.k = "list"
                   THEN << >> \o [i \in 1..Len(o.es) |-> IF o.es[i] = UNDEF THEN NULL ELSE o.es[i]]
                   ELSE << >> \o [i \in 1..Len(ks) |-> o.es[EntryIdx(o.es, ks[i])].v]
             m1 == CloneSeq(m, vs, refs, fI, << >>)
             es == << >> \o [i \in 1..Len(ks) |-> [k |-> ks[i], v |-> m1.ret[1][i]]]
             m2 == IF o.k = "list" THEN NewList(m1, m1.ret[1])
                   ELSE Alloc(m1, [k |-> "map",
                                   es |-> SelectSeq(es, LAMBDA e : e.v # UNDEF)])
         IN IF m1.thrown # NoThrow THEN m1 ELSE Ret(m2, <<m2.ret, m1.ret[2]>>)

\* A clone that is the value itself.
NoClone(m, val) == Ret(m, val)

\* clone(val) (struct.ts 334-341)
clone(m, val) ==
  IF ~Ok(m) THEN m
  ELSE IF val = UNDEF THEN Ret(m, UNDEF)
  ELSE LET m1 == CloneR(m, val, CloneRefs(m, val), 0)
       IN Ret(m1, m1.ret[1])

---------------------------------------------------------------------------
(* walk, merge and getpath (struct.ts 400-569).                            *)

\* cur[i] of the merger's node stack (a JavaScript array, 0-based, sparse).
CurGet(cur, i) == IF i >= 0 /\ i < Len(cur) THEN cur[i + 1] ELSE UNDEF
CurSet(cur, i, v) ==
  [j \in 1..(IF i + 1 > Len(cur) THEN i + 1 ELSE Len(cur)) |->
     IF j = i + 1 THEN v ELSE IF j <= Len(cur) THEN cur[j] ELSE UNDEF]

\* pathify(path) of getpath's path argument, given as the list of its parts
\* (a string path is the one-element list of itself): struct.ts 303-321.
PathifyVals(m, vs) ==
  LET keep == SelectSeq(vs, LAMBDA v : v.t \in {"str", "num"})
  IN IF vs = << >> THEN T_root
     ELSE JoinWith([i \in 1..Len(keep) |->
                     IF keep[i].t = "num" THEN NumToStr(keep[i].n)
                     ELSE DropDots(keep[i].s)], S_DT)

\* Descend from val along parts[pI..] (1-based) with getprop, stopping at the
\* first undefined (the for loop of getpath, struct.ts 556-558).
RECURSIVE Descend(_, _, _, _)
Descend(m, val, parts, pI) ==
  IF val = UNDEF \/ pI > Len(parts) THEN val
  ELSE Descend(m, getprop(m, val, parts[pI]), parts, pI + 1)

\* The value getpath finds before any handler runs (struct.ts 529-560).
\* parts is the list of path parts, base the state's base key (or UNDEF).
PathLookup(m, parts, store, current, base) ==
  IF IsNullish(store) \/ (Len(parts) = 1 /\ parts[1] = Str(S_MT))
  THEN getprop3(m, store, base, store)
  ELSE IF Len(parts) > 0
    THEN LET local == parts[1] = Str(S_MT)
             pI == IF local THEN 1 ELSE 0
             root == IF local THEN current ELSE store
             part == IF pI < Len(parts) THEN parts[pI + 1] ELSE UNDEF
             first == getprop(m, root, part)
             val == IF first = UNDEF /\ pI = 0
                    THEN getprop(m, getprop(m, root, base), part)
                    ELSE first
         IN Descend(m, val, parts, pI + 2)
  ELSE store

\* The parts of a path value: a list as is, a string split at the dots
\* (struct.ts 523); ok is FALSE for any other path (getpath returns UNDEF).
PathParts(m, path) ==
  IF islist(m, path) THEN [ok |-> TRUE, parts |-> Obj(m, path).es]
  ELSE IF path.t = "str"
    THEN [ok |-> TRUE, parts |-> [i \in 1..Len(Split(path.s)) |-> Str(Split(path.s)[i])]]
  ELSE [ok |-> FALSE, parts |-> << >>]

\* getpath(path, store) without current and state, as merge calls it
\* (struct.ts 480): a pure lookup.
getpath2(m, parts, store) == PathLookup(m, parts, store, UNDEF, UNDEF)

RECURSIVE Run(_, _)

\* merger(key, val, parent, path), the visitor of merge (struct.ts 465-501);
\* out and cur are the closure variables kept in m.env.
merger(m, key, val, parent, path) ==
  IF IsNullish(key) THEN Ret(m, val)
  ELSE
    LET lenpath == Len(path)
        cI == lenpath - 1
        cur0 == m.env.cur
    IN
    With(IF CurGet(cur0, cI) = UNDEF
         THEN CurSet(cur0, cI,
                getpath2(m, [i \in 1..(lenpath - 1) |-> Str(path[i])], m.env.out))
         ELSE cur0, LAMBDA cur1 :
    With(IF ~isnode(m, CurGet(cur1, cI))
         THEN IF islist(m, parent) THEN NewList(m, << >>) ELSE NewMap(m)
         ELSE m, LAMBDA m1 :
    With(IF ~isnode(m, CurGet(cur1, cI)) THEN CurSet(cur1, cI, m1.ret) ELSE cur1,
         LAMBDA cur2 :
    IF isnode(m1, val) /\ ~isempty(m1, val)
    THEN With(setprop(m1, CurGet(cur2, cI), key, CurGet(cur2, cI + 1)), LAMBDA m2 :
              Ret([m2 EXCEPT !.env.cur = CurSet(cur2, cI + 1, UNDEF)], val))
    ELSE With(setprop(m1, CurGet(cur2, cI), key, val), LAMBDA m2 :
              Ret([m2 EXCEPT !.env.cur = cur2], val)))))

\* The visitors walk can be given: the merger of merge, and two visitors of a
\* caller that record their arguments and the heap they are called in;
\* "record" returns the value unchanged, "bump" returns n + 1 for a number n.
Apply(m, apply, key, val, parent, path) ==
  IF apply = "merger" THEN Run("merger", <<m, key, val, parent, path>>)
  ELSE IF ~Ok(m) THEN m
  ELSE Ret([m EXCEPT !.log = Append(m.log, [key |-> key, val |-> val, parent |-> parent,
                                             path |-> path, h |-> m.h])],
           IF apply = "bump" /\ val.t = "num" THEN Num(val.n + 1) ELSE val)

\* The loop over items(val) in walk (struct.ts 412-414).
WalkItems(m, val, apply, its, i, path) ==
  LET ckey == its[i][1]
      m1 == Run("walk", <<m, its[i][2], apply, ckey, val, Append(path, KeyStr(m, ckey))>>)
      m2 == setprop(m1, val, ckey, m1.ret)
  IN CASE i > Len(its) -> m
       [] i <= Len(its) /\ m1.thrown # NoThrow -> m1
       [] OTHER -> Run("WalkItems", <<m2, val, apply, its, i + 1, path>>)

\* A walk that calls the visitor on a node before it walks the children.
WalkParentFirst(m, val, apply, key, parent, path) ==
  Then(Run("Apply", <<m, apply, key, val, parent, path>>), LAMBDA m1 :
       IF isnode(m1, val)
       THEN Then(Run("WalkItems", <<m1, val, apply, items(m1, val), 1, path>>),
                 LAMBDA m2 : Ret(m2, m1.ret))
       ELSE m1)

\* walk(val, apply, key, parent, path) (struct.ts 401-420)
walk(m, val, apply, key, parent, path) ==
  LET m1 == Run("WalkItems", <<m, val, apply, items(m, val), 1, path>>)
  IN CASE ~isnode(m, val) -> Run("Apply", <<m, apply, key, val, parent, path>>)
       [] isnode(m, val) /\ m1.thrown # NoThrow -> m1
       [] OTHER -> Run("Apply", <<m1, apply, key, val, parent, path>>)

\* The fold of merge over list[oI..] with the accumulator out (struct.ts 448-507).
MergeFrom(m, list, oI, out) ==
  LET obj == list[oI]
      replace == \/ ~isnode(m, obj)
                 \/ ~isnode(m, out)
                 \/ (ismap(m, obj) /\ islist(m, out))
                 \/ (islist(m, obj) /\ ismap(m, out))
      m0 == [m EXCEPT !.env = [out |-> out, cur |-> <<out>>]]
      m1 == Run("walk", <<m0, obj, "merger", UNDEF, UNDEF, << >>>>)
  IN CASE oI > Len(list) -> Ret(m, out)
       [] oI <= Len(list) /\ replace -> Run("MergeFrom", <<m, list, oI + 1, obj>>)
       [] OTHER -> IF m1.thrown # NoThrow THEN m1
                   ELSE Run("MergeFrom", <<[m1 EXCEPT !.env = m.env], list, oI + 1, out>>)

\* merge(val) for a list of values given as a sequence (struct.ts 427-510).
merge(m, list) ==
  IF ~Ok(m) THEN m
  ELSE IF Len(list) = 0 THEN Ret(m, UNDEF)
  ELSE IF Len(list) = 1 THEN Ret(m, list[1])
  ELSE LET m1 == IF list[1] = UNDEF THEN NewMap(m) ELSE Ret(m, list[1])
       IN Run("MergeFrom", <<m1, list, 2, m1.ret>>)

---------------------------------------------------------------------------
(* The string injector and the injection engine (struct.ts 581-803).       *)

S_MKEYPRE == "key:pre"
S_MKEYPOST == "key:post"
S_MVAL == "val"

T_BT == <<36, 66, 84>>                            \* '$BT'
T_DS == <<36, 68, 83>>                            \* '$DS'

\* s.replace(/pat/g, rep) for a literal pattern pat no two occurrences of
\* which can overlap and a replacement rep of one character.
ReplaceAll(s, pat, rep) ==
  LET at == {i \in 1..(Len(s) - Len(pat) + 1) : SubSeq(s, i, i + Len(pat) - 1) = pat}
      keep == Ascending({i \in 1..Len(s) : \A p \in at : ~(p < i /\ i < p + Len(pat))})
  IN [j \in 1..Len(keep) |-> IF keep[j] \in at THEN rep[1] ELSE s[keep[j]]]

\* The special escapes inside an injection (struct.ts 606-607, 620).
Unescape(ref) ==
  IF 3 < Len(ref) THEN ReplaceAll(ReplaceAll(ref, T_BT, S_BT), T_DS, S_DS) ELSE ref

\* The character classes of the regular expressions (struct.ts 596, 616, 1327).
InClass(c, cls) ==
  CASE cls = "upper" -> IsUpper(c)
    [] cls = "digit" -> IsDigit(c)
    [] cls = "notbt" -> c # S_BT[1]

\* The number of characters of s from position i on that are in class cls.
Span(s, i, cls) ==
  IF i > Len(s) THEN 0
  ELSE CHOOSE n \in 0..(Len(s) - i + 1) :
         /\ \A j \in i..(i + n - 1) : InClass(s[j], cls)
         /\ (i + n > Len(s) \/ ~InClass(s[i + n], cls))

\* A full-match test that never matches: every string is injected as a
\* partial reference.
FullMatchNever(s) == [ok |-> FALSE, ref |-> S_MT]

\* val.match(/^`(\$[A-Z]+|[^`]+)[0-9]*`$/): ok and the captured group.
FullMatch(s) ==
  IF Len(s) >= 3 /\ s[1] = S_BT[1] /\ s[Len(s)] = S_BT[1]
     /\ ~Includes(SubSeq(s, 2, Len(s) - 1), S_BT[1])
  THEN LET inner == SubSeq(s, 2, Len(s) - 1)
           ups == IF inner[1] = S_DS[1] THEN Span(inner, 2, "upper") ELSE 0
           digs == Span(inner, 2 + ups, "digit")
       IN IF ups >= 1 /\ 1 + ups + digs = Len(inner)
          THEN [ok |-> TRUE, ref |-> SubSeq(inner, 1, 1 + ups)]
          ELSE [ok |-> TRUE, ref |-> inner]
  ELSE [ok |-> FALSE, ref |-> S_MT]

\* The first match of /`([^`]+)`/ in s at or after position i: <<start, end>>
\* of the match, or <<0, 0>>.
NextInj(s, i) ==
  LET starts == {b \in i..Len(s) : /\ s[b] = S_BT[1]
                                   /\ Span(s, b + 1, "notbt") >= 1
                                   /\ b + Span(s, b + 1, "notbt") + 1 <= Len(s)}
  IN IF starts = {} THEN <<0, 0>>
     ELSE LET b == CHOOSE x \in starts : \A y \in starts : x <= y
          IN <<b, b + Span(s, b + 1, "notbt") + 1>>

S_base == <<98, 97, 115, 101>>                    \* 'base'

\* getpath(path, store, current, state) called with a state that is absent
\* or a node without a handler (struct.ts 520-569): base is
\* getprop(state, 'base'), and the value found is returned.
getpath4(m, path, store, current, state) ==
  IF ~PathParts(m, path).ok THEN Ret(m, UNDEF)
  ELSE Ret(m, PathLookup(m, PathParts(m, path).parts, store, current,
                         getprop(m, state, Str(S_base))))

\* An Injection (struct.ts 114-129) is a heap object; sa is its address.
St(m, sa) == m.h[sa]
SetFull(m, sa, b) == IF Ok(m) THEN [m EXCEPT !.h[sa].full = b] ELSE m
SetMode(m, sa, mode) == IF Ok(m) THEN [m EXCEPT !.h[sa].mode = mode] ELSE m
SetKeyI(m, sa, i) == IF Ok(m) THEN [m EXCEPT !.h[sa].keyI = i] ELSE m

\* What an observer of the engine notes of a step taken on the Injection at
\* sa: the kind of step, the function and the value concerned, and the
\* mode, full flag, key, path, keyI and parent node of the Injection at that
\* moment.
Event(m, sa, ev, fn, ref) ==
  [ev |-> ev, fn |-> fn, ref |-> ref, mode |-> St(m, sa).mode, full |-> St(m, sa).full,
   key |-> St(m, sa).key, path |-> St(m, sa).path, keyI |-> St(m, sa).keyI,
   node |-> St(m, sa).parent]
Note(m, e) == IF Ok(m) THEN [m EXCEPT !.log = Append(@, e)] ELSE m

\* state.errs.push(msg)
PushErr(m, sa, msg) ==
  IF Ok(m) THEN [m EXCEPT !.h[St(m, sa).errs.a].es = Append(@, Str(msg))] ELSE m


\* getpath(path, store, current, state) (struct.ts 520-569); sa = 0 stands
\* for an absent state.
getpath(m, path, store, current, sa) ==
  CASE ~PathParts(m, path).ok -> Ret(m, UNDEF)
    [] PathParts(m, path).ok /\ sa = 0 ->
         Ret(m, PathLookup(m, PathParts(m, path).parts, store, current, UNDEF))
    [] OTHER ->
         Run("injecthandler", <<m, sa,
           PathLookup(m, PathParts(m, path).parts, store, current, St(m, sa).base),
           current,
           Str(PathifyVals(m, IF path.t = "str" THEN <<path>>
                              ELSE PathParts(m, path).parts)),
           store>>)

\* The text String.prototype.replace substitutes for a found value
\* (struct.ts 627-629).
FoundStr(m, found) ==
  CASE found = UNDEF -> S_MT
    [] TypeOf(found) = "object" -> JsonStr(m, found, FALSE)
    [] found.t = "str" -> found.s
    [] found.t = "num" -> NumToStr(found.n)
    [] OTHER -> KeyStr(m, found)

\* val.replace(/`([^`]+)`/g, ...) from position i on, out being the text
\* built so far (struct.ts 616-630); ret is the resulting string value.
InjectParts(m, s, i, out, store, current, sa) ==
  LET mt == NextInj(s, i)
      ref == Unescape(SubSeq(s, mt[1] + 1, mt[2] - 1))
      m1 == Run("getpath", <<SetFull(m, sa, FALSE), Str(ref), store, current, sa>>)
  IN CASE mt[1] = 0 -> Ret(m, Str(out \o SubSeq(s, i, Len(s))))
       [] mt[1] # 0 /\ m1.thrown # NoThrow -> m1
       [] OTHER -> Run("InjectParts", <<m1, s, mt[2] + 1,
                               out \o SubSeq(s, i, mt[1] - 1) \o FoundStr(m1, m1.ret),
                               store, current, sa>>)

\* _injectstr(val, store, current, state) (struct.ts 581-640)
injectstr(m, val, store, current, sa) ==
  LET m1 == Run("InjectParts", <<m, val.s, 1, S_MT, store, current, sa>>)
  IN CASE val.t # "str" -> Ret(m, Str(S_MT))
       [] val.t = "str" /\ FullMatch(val.s).ok ->
            Run("getpath", <<SetFull(m, sa, TRUE), Str(Unescape(FullMatch(val.s).ref)), store,
                    current, sa>>)
       [] OTHER -> IF m1.thrown # NoThrow THEN m1
                   ELSE Run("injecthandler", <<SetFull(m1, sa, TRUE), sa, m1.ret, current, val,
                                      store>>)

\* injecthandler(state, val, current, ref, store) (struct.ts 783-803)
injecthandler(m, sa, val, current, ref, store) ==
  CASE isfunc(val) /\ (ref = UNDEF \/ StartsWith(ref.s, S_DS)) ->
         Run("CallFn", <<Note(m, Event(m, sa, "invoke", val.f, ref)),
                         val, sa, val, current, ref, store>>)
    [] OTHER ->
         IF St(m, sa).mode = S_MVAL /\ St(m, sa).full
         THEN Ret(setprop(m, St(m, sa).parent, St(m, sa).key, val), val)
         ELSE Ret(m, val)

\* The iteration keys of a node (struct.ts 696-699): for a map the keys
\* without '$' in Object.keys order, then the keys with '$' sorted; for a
\* list its indexes, as numbers.
OrigKeys(m, val) ==
  IF ismap(m, val)
  THEN LET ks == ObjectKeys(Obj(m, val))
           plain == SelectSeq(ks, LAMBDA k : ~Includes(k, S_DS[1]))
           cmds == SortStrs(SelectSeq(ks, LAMBDA k : Includes(k, S_DS[1])))
       IN << >> \o [i \in 1..Len(ks) |-> Str((plain \o cmds)[i])]
  ELSE << >> \o [i \in 1..Len(Obj(m, val).es) |-> Num(i - 1)]

\* One Injection object for the child at origkey (struct.ts 712-726).
ChildState(m, psa, val, keys, okI, origkey) ==
  [k |-> "state", mode |-> S_MKEYPRE, full |-> FALSE, keyI |-> okI, keys |-> keys,
   key |-> Str(origkey), val |-> val, parent |-> val,
   path |-> Append(St(m, psa).path, origkey),
   nodes |-> Append(St(m, psa).nodes, val),
   base |-> St(m, psa).base, errs |-> St(m, psa).errs, modify |-> "absent"]

\* The key loop is followed for at most MaxLoop iterations; a loop that is
\* still running then is taken to run on, and the call ends as Unending.
MaxLoop == 12
Unending == "unending"

\* A key loop that runs the key:post phase of a key before its val phase.
InjectLoopPostFirst(m, val, store, modify, current, psa, keys, okI) ==
  LET more == okI < Len(Obj(m, keys).es)
      origkey == KeyStr(m, Obj(m, keys).es[okI + 1])
      csa == Len(m.h) + 1
      Begin(mB, v) == Note(mB, Event(mB, csa, "begin", << >>, v))
      End(mE, v) == Note(mE, Event(mE, csa, "end", << >>, v))
      mA == Alloc(m, ChildState(m, psa, val, keys, okI, origkey))
      m1r == Run("injectstr", <<Begin(mA, UNDEF), Str(origkey), store, current, csa>>)
      m1 == End(m1r, m1r.ret)
      m3r == Run("injectstr", <<Begin(SetMode(m1, csa, S_MKEYPOST), UNDEF), Str(origkey),
                        store, current, csa>>)
      m3 == End(m3r, UNDEF)
      child == getprop(m3, val, m1.ret)
      m2r == Run("inject", <<Begin(SetMode(m3, csa, S_MVAL), child), child, store, modify,
                    current, csa>>)
      m2 == End(m2r, UNDEF)
  IN CASE ~more -> m
       [] more /\ okI >= MaxLoop -> Throw(m, Unending)
       [] more /\ okI < MaxLoop /\ m1.thrown # NoThrow -> m1
       [] more /\ okI < MaxLoop /\ m1.thrown = NoThrow /\ m1.ret = UNDEF ->
            Run("InjectLoop", <<m1, val, store, modify, current, psa, keys, St(m1, csa).keyI + 1>>)
       [] OTHER ->
            IF m3.thrown # NoThrow THEN m3
            ELSE IF m2.thrown # NoThrow THEN m2
            ELSE Run("InjectLoop", <<m2, val, store, modify, current, psa, keys,
                            St(m2, csa).keyI + 1>>)

\* The for loop over the child keys (struct.ts 706-753), from index okI on;
\* keys is the origkeys array, which directives may truncate or extend.  The
\* observer notes the begin and the end of each phase; the end of key:pre
\* with the key it returned, the begin of val with the child.
InjectLoop(m, val, store, modify, current, psa, keys, okI) ==
  LET more == okI < Len(Obj(m, keys).es)
      origkey == KeyStr(m, Obj(m, keys).es[okI + 1])
      csa == Len(m.h) + 1
      Begin(mB, v) == Note(mB, Event(mB, csa, "begin", << >>, v))
      End(mE, v) == Note(mE, Event(mE, csa, "end", << >>, v))
      mA == Alloc(m, ChildState(m, psa, val, keys, okI, origkey))
      m1r == Run("injectstr", <<Begin(mA, UNDEF), Str(origkey), store, current, csa>>)
      m1 == End(m1r, m1r.ret)
      child == getprop(m1, val, m1.ret)
      m2r == Run("inject", <<Begin(SetMode(m1, csa, S_MVAL), child), child, store, modify,
                    current, csa>>)
      m2 == End(m2r, UNDEF)
      m3r == Run("injectstr", <<Begin(SetMode(m2, csa, S_MKEYPOST), UNDEF), Str(origkey),
                        store, current, csa>>)
      m3 == End(m3r, UNDEF)
  IN CASE ~more -> m
       [] more /\ okI >= MaxLoop -> Throw(m, Unending)
       [] more /\ okI < MaxLoop /\ m1.thrown # NoThrow -> m1
       [] more /\ okI < MaxLoop /\ m1.thrown = NoThrow /\ m1.ret = UNDEF ->
            Run("InjectLoop", <<m1, val, store, modify, current, psa, keys, St(m1, csa).keyI + 1>>)
       [] OTHER ->
            IF m2.thrown # NoThrow THEN m2
            ELSE IF m3.thrown # NoThrow THEN m3
            ELSE Run("InjectLoop", <<m3, val, store, modify, current, psa, keys,
                            St(m3, csa).keyI + 1>>)

\* The root Injection and its virtual parent (struct.ts 658-678).
RootState(m, val, store, modify) ==
  LET m1 == Alloc(m, [k |-> "map",
                      es |-> IF val = UNDEF THEN << >> ELSE <<[k |-> S_DTOP, v |-> val]>>])
      parent == m1.ret
      m2 == NewList(m1, <<Str(S_DTOP)>>)
      keys == m2.ret
      m3 == IF getprop(m2, store, Str(S_DERRS)) = UNDEF THEN NewList(m2, << >>)
            ELSE Ret(m2, getprop(m2, store, Str(S_DERRS)))
  IN Alloc(m3, [k |-> "state", mode |-> S_MVAL, full |-> FALSE, keyI |-> 0,
                keys |-> keys, key |-> Str(S_DTOP), val |-> val, parent |-> parent,
                path |-> <<S_DTOP>>, nodes |-> <<parent>>, base |-> Str(S_DTOP),
                errs |-> m3.ret, modify |-> modify])

\* inject(val, store, modify, current, state) (struct.ts 647-778); sa0 = 0
\* stands for an absent state.
inject(m, val, store, modify, current, sa0) ==
  With(IF sa0 = 0 THEN RootState(m, val, store, modify) ELSE m, LAMBDA mR :
  LET sa == IF sa0 = 0 THEN mR.ret.a ELSE sa0
      path == St(mR, sa).path
  IN
  With(IF current = UNDEF
       THEN Alloc(mR, [k |-> "map", es |-> <<[k |-> S_DTOP, v |-> store]>>])
       ELSE Ret(mR, IF Len(path) < 2 THEN current
                    ELSE getprop(mR, current, Str(path[Len(path) - 1]))), LAMBDA mC :
  Then(IF isnode(mC, val)
       THEN With(NewList(mC, OrigKeys(mC, val)), LAMBDA mK :
            Then(Run("InjectLoop", <<mK, val, store, modify, mC.ret, sa, mK.ret, 0>>),
                 LAMBDA mL : Ret(mL, val)))
       ELSE IF val.t = "str"
         THEN Then(Run("injectstr", <<SetMode(mC, sa, S_MVAL), val, store, mC.ret, sa>>),
                   LAMBDA mS :
                     Ret(setprop(mS, St(mS, sa).parent, St(mS, sa).key, mS.ret), mS.ret))
       ELSE Ret(mC, val), LAMBDA mN :
  Then(IF modify # "absent"
       THEN Run("Modify", <<mN, modify, mN.ret, St(mN, sa).key, St(mN, sa).parent,
                            sa, mC.ret, store>>)
       ELSE mN, LAMBDA mM :
  Ret(mM, getprop(mM, St(mM, sa).parent, Str(S_DTOP)))))))

---------------------------------------------------------------------------
(* The transform directives (struct.ts 806-1043).                          *)

\* v[key] for any value v, as JavaScript evaluates it: a TypeError on
\* undefined and null, a character of a string, undefined on other scalars.
\* ret is the value read.
Prop(m, v, key) ==
  IF IsNullish(v) THEN Throw(m, "TypeError")
  ELSE IF IsRef(v) THEN Ret(m, Index(m, v, key))
  ELSE IF v.t = "str" /\ IsIndexStr(KeyStr(m, key))
          /\ DigitsVal(KeyStr(m, key), 0) < Len(v.s)
    THEN Ret(m, Str(<<v.s[DigitsVal(KeyStr(m, key), 0) + 1]>>))
  ELSE IF v.t = "str" /\ KeyStr(m, key) = S_length THEN Ret(m, Num(Len(v.s)))
  ELSE Ret(m, UNDEF)

\* path[path.length - 2], a string value or undefined.
PathKey2(m, sa) ==
  LET path == St(m, sa).path
  IN IF Len(path) >= 2 THEN Str(path[Len(path) - 1]) ELSE UNDEF

\* nodes[path.length - 2] || nodes[path.length - 1] (struct.ts 928, 990)
TargetNode(m, sa) ==
  LET path == St(m, sa).path
      nodes == St(m, sa).nodes
      at(i) == IF i >= 1 /\ i <= Len(nodes) THEN nodes[i] ELSE UNDEF
  IN IF at(Len(path) - 1) # UNDEF THEN at(Len(path) - 1) ELSE at(Len(path))

\* transform_DELETE (struct.ts 809-813)
transform_DELETE(m, sa) ==
  Ret(setprop(m, St(m, sa).parent, St(m, sa).key, UNDEF), UNDEF)

\* transform_COPY (struct.ts 817-827)
transform_COPY(m, sa, current) ==
  LET st == St(m, sa)
  IN IF st.mode \in {S_MKEYPRE, S_MKEYPOST} THEN Ret(m, st.key)
     ELSE LET out == getprop(m, current, st.key)
          IN Ret(setprop(m, st.parent, st.key, out), out)

\* transform_KEY (struct.ts 832-849)
transform_KEY(m, sa, current) ==
  LET st == St(m, sa)
      keyspec == getprop(m, st.parent, Str(S_DKEY))
  IN IF st.mode # S_MVAL THEN Ret(m, UNDEF)
     ELSE IF keyspec # UNDEF
       THEN Ret(setprop(m, st.parent, Str(S_DKEY), UNDEF), getprop(m, current, keyspec))
     ELSE Ret(m, getprop3(m, getprop(m, st.parent, Str(S_DMETA)), Str(S_KEY),
                          PathKey2(m, sa)))

\* transform_META (struct.ts 853-857)
transform_META(m, sa) ==
  Ret(setprop(m, St(m, sa).parent, Str(S_DMETA), UNDEF), UNDEF)

\* transform_MERGE (struct.ts 865-891)
transform_MERGE(m, sa, current) ==
  LET st == St(m, sa)
  IN IF st.mode = S_MKEYPRE THEN Ret(m, st.key)
     ELSE IF st.mode = S_MKEYPOST
       THEN LET args0 == getprop(m, st.parent, st.key)
            IN
            Then(IF args0 = Str(S_MT) THEN Prop(m, current, Str(S_DTOP)) ELSE m,
                 LAMBDA m1 :
            LET args == IF args0 = Str(S_MT) THEN <<m1.ret>>
                        ELSE IF islist(m, args0) THEN Obj(m, args0).es
                        ELSE <<args0>>
            IN
            Then(clone(setprop(m1, st.parent, st.key, UNDEF), st.parent), LAMBDA m3 :
            Then(Run("merge", <<m3, <<st.parent>> \o args \o <<m3.ret>>>>), LAMBDA m4 :
            Ret(m4, st.key))))
     ELSE Ret(m, UNDEF)

\* {...v}: the own enumerable properties of v as the entries of a new map.
Spread(m, v) ==
  IF ismap(m, v)
  THEN LET ks == ObjectKeys(Obj(m, v))
       IN << >> \o [i \in 1..Len(ks) |-> [k |-> ks[i], v |-> Index(m, v, Str(ks[i]))]]
  ELSE IF islist(m, v)
    THEN << >> \o [i \in 1..Len(Obj(m, v).es) |-> [k |-> NatToStr(i - 1), v |-> Obj(m, v).es[i]]]
  ELSE IF v.t = "str"
    THEN << >> \o [i \in 1..Len(v.s) |-> [k |-> NatToStr(i - 1), v |-> Str(<<v.s[i]>>)]]
  ELSE << >>

\* Object.entries(src) enumerated from the last entry to the first.
EntriesBackwards(m, src) ==
  LET ks == IF ismap(m, src) THEN ObjectKeys(Obj(m, src))
            ELSE [i \in 1..Len(Obj(m, src).es) |-> NatToStr(i - 1)]
      n == Len(ks)
  IN << >> \o [i \in 1..n |-> <<ks[n + 1 - i],
                                 IF ismap(m, src) THEN Index(m, src, Str(ks[n + 1 - i]))
                                 ELSE Obj(m, src).es[n + 1 - i]>>]

\* Object.entries(src) of a node, as <<key, value>> pairs.
Entries(m, src) ==
  IF ismap(m, src)
  THEN LET ks == ObjectKeys(Obj(m, src))
       IN << >> \o [i \in 1..Len(ks) |-> <<ks[i], Index(m, src, Str(ks[i]))>>]
  ELSE << >> \o [i \in 1..Len(Obj(m, src).es) |-> <<NatToStr(i - 1), Obj(m, src).es[i]>>]

\* The child-template clones transform_EACH builds, one per entry of src
\* (struct.ts 932-942); ret is the list of the clones built so far.
EachClones(m, child, ents, i, withMeta, acc) ==
  IF i > Len(ents) THEN Ret(m, acc)
  ELSE Then(clone(m, child), LAMBDA m1 :
       IF ~withMeta
       THEN Run("EachClones", <<m1, child, ents, i + 1, withMeta, Append(acc, m1.ret)>>)
       ELSE
       Then(Alloc(m1, [k |-> "map", es |-> <<[k |-> S_KEY, v |-> Str(ents[i][1])]>>]),
            LAMBDA m2 :
       Then(Alloc(m2, [k |-> "map", es |-> Spread(m1, m1.ret)]), LAMBDA m3 :
       Then(setprop(m3, m3.ret, Str(S_DMETA), m2.ret), LAMBDA m4 :
       Run("EachClones", <<m4, child, ents, i + 1, withMeta, Append(acc, m3.ret)>>)))))

\* transform_EACH (struct.ts 896-962)
transform_EACH(m, sa, current, store) ==
  LET st == St(m, sa)
      keys == Obj(m, st.keys).es
  IN
  With(IF Ok(m)
       THEN [m EXCEPT !.h[st.keys.a].es =
               IF keys = << >> THEN <<UNDEF>> ELSE <<keys[1]>>]
       ELSE m, LAMBDA m0 :
  IF st.mode # S_MVAL THEN Ret(m0, UNDEF)
  ELSE
  Then(clone(m0, Index(m0, st.parent, Num(2))), LAMBDA m1 :
  Then(Run("getpath", <<m1, Index(m0, st.parent, Num(1)), store, current, sa>>),
       LAMBDA m2 :
  LET child == m1.ret
      src == m2.ret
      tkey == PathKey2(m2, sa)
      target == TargetNode(m2, sa)
  IN
  Then(IF isnode(m2, src)
       THEN Run("EachClones", <<m2, child, Entries(m2, src), 1, ismap(m2, src), << >>>>)
       ELSE Ret(m2, << >>), LAMBDA m3 :
  With(NewList(m3, m3.ret), LAMBDA m4 :
  With(NewList(m4, IF isnode(m2, src)
                   THEN [i \in 1..Len(Entries(m2, src)) |-> Entries(m2, src)[i][2]]
                   ELSE << >>), LAMBDA m5 :
  Then(Alloc(m5, [k |-> "map", es |-> <<[k |-> S_DTOP, v |-> m5.ret]>>]), LAMBDA m6 :
  Then(Run("inject", <<m6, m4.ret, store, St(m6, sa).modify, m6.ret, 0>>), LAMBDA m7 :
  Prop(setprop(m7, target, tkey, m7.ret), m7.ret, Num(0))))))))))

\* The list transform_PACK makes of a map source (struct.ts 997-999): each
\* value gets a `$META` entry holding its key.  Assigning a property to a
\* scalar value is a TypeError (the module runs in strict mode).
RECURSIVE PackEntries(_, _, _, _)
PackEntries(m, ents, i, acc) ==
  IF ~Ok(m) \/ i > Len(ents) THEN Ret(m, acc)
  ELSE LET v == ents[i][2]
       IN IF ~IsRef(v) THEN Throw(m, "TypeError")
          ELSE LET m1 == Alloc(m, [k |-> "map",
                                   es |-> <<[k |-> S_KEY, v |-> Str(ents[i][1])]>>])
                   m2 == IF ismap(m1, v) THEN setprop(m1, v, Str(S_DMETA), m1.ret) ELSE m1
               IN PackEntries(m2, ents, i + 1, Append(acc, v))

\* The target map transform_PACK builds (struct.ts 1012-1019).
PackTarget(m, src, i, keyname, child, a) ==
  IF ~Ok(m) \/ i > Len(src) THEN m
  ELSE With(getprop(m, src[i], keyname), LAMBDA kn :
       Then(clone(m, child), LAMBDA m1 :
       Then(setprop(m1, a, kn, m1.ret), LAMBDA m2 :
       Run("PackTarget",
           <<setprop(m2, getprop(m2, a, kn), Str(S_DMETA),
                     getprop(m2, src[i], Str(S_DMETA))),
             src, i + 1, keyname, child, a>>))))

\* The parallel source map transform_PACK builds (struct.ts 1022-1027).
PackCurrent(m, src, i, keyname, a) ==
  IF ~Ok(m) \/ i > Len(src) THEN m
  ELSE Run("PackCurrent", <<setprop(m, a, getprop(m, src[i], keyname), src[i]),
                   src, i + 1, keyname, a>>)

\* transform_PACK (struct.ts 968-1043)
transform_PACK(m, sa, current, store) ==
  LET st == St(m, sa)
  IN IF st.mode # S_MKEYPRE \/ st.key.t # "str" THEN Ret(m, UNDEF)
     ELSE
       LET args == Index(m, st.parent, st.key)
       IN
       Then(Prop(m, args, Num(0)), LAMBDA mA :
       Then(Prop(mA, args, Num(1)), LAMBDA mB :
       Then(clone(mB, mB.ret), LAMBDA m1 :
       Then(Prop(m1, m1.ret, Str(S_DKEY)), LAMBDA m2 :
       Then(Run("getpath", <<m2, mA.ret, store, current, sa>>), LAMBDA m3 :
       LET child == m1.ret
           keyprop == m2.ret
           tkey == PathKey2(m2, sa)
           target == TargetNode(m2, sa)
           src0 == m3.ret
       IN
       Then(IF islist(m3, src0) THEN Ret(m3, Obj(m3, src0).es)
            ELSE IF ismap(m3, src0) THEN PackEntries(m3, Entries(m3, src0), 1, << >>)
            ELSE Ret(m3, UNDEF), LAMBDA m4 :
       IF ~isnode(m3, src0) THEN Ret(m4, UNDEF)
       ELSE
       LET src == m4.ret
           childkey == getprop(m4, child, Str(S_DKEY))
           keyname == IF childkey = UNDEF THEN keyprop ELSE childkey
       IN
       With(NewMap(setprop(m4, child, Str(S_DKEY), UNDEF)), LAMBDA m6 :
       Then(Run("PackTarget", <<m6, src, 1, keyname, child, m6.ret>>), LAMBDA m7 :
       With(NewMap(m7), LAMBDA m8 :
       Then(Run("PackCurrent", <<m8, src, 1, keyname, m8.ret>>), LAMBDA m9 :
       Then(Alloc(m9, [k |-> "map", es |-> <<[k |-> S_DTOP, v |-> m8.ret]>>]),
            LAMBDA m10 :
       Then(Run("inject", <<m10, m6.ret, store, St(m10, sa).modify, m10.ret, 0>>),
            LAMBDA m11 :
       Ret(setprop(m11, target, tkey, m11.ret), UNDEF)))))))))))))

---------------------------------------------------------------------------
(* The validation directives and the validate modifier                     *)
(* (struct.ts 1104-1413, 1491-1497).                                       *)

\* The texts of the error messages (struct.ts 1111, 1247, 1331, 1390, 1495).
T_Expected == <<69, 120, 112, 101, 99, 116, 101, 100, 32>>  \* "Expected "
T_at == <<32, 97, 116, 32>>  \* " at "
T_found == <<44, 32, 102, 111, 117, 110, 100, 32>>  \* ", found "
T_colon == <<58, 32>>  \* ": "
T_comma == <<44, 32>>  \* ", "
T_oneof == <<111, 110, 101, 32, 111, 102, 32>>  \* "one of "
T_EmptyString == <<69, 109, 112, 116, 121, 32, 115, 116, 114, 105, 110, 103, 32, 97, 116, 32>>  \* "Empty string at "
T_UnexpectedKeys == <<85, 110, 101, 120, 112, 101, 99, 116, 101, 100, 32, 107, 101, 121, 115, 32, 97, 116, 32>>  \* "Unexpected keys at "
T_InvalidChild == <<73, 110, 118, 97, 108, 105, 100, 32, 36, 67, 72, 73, 76, 68, 32, 97, 115, 32, 118, 97, 108, 117, 101>>  \* "Invalid $CHILD as value"
T_object == <<111, 98, 106, 101, 99, 116>>  \* "object"
T_array == <<97, 114, 114, 97, 121>>  \* "array"
T_number == <<110, 117, 109, 98, 101, 114>>  \* "number"
T_string == <<115, 116, 114, 105, 110, 103>>  \* "string"
T_boolean == <<98, 111, 111, 108, 101, 97, 110>>  \* "boolean"
T_function == <<102, 117, 110, 99, 116, 105, 111, 110>>  \* "function"

\* The string a typeof result or a type name denotes.
TypeStr(t) ==
  CASE t = "undefined" -> T_undefined
    [] t = "object" -> T_object
    [] t = "array" -> T_array
    [] t = "number" -> T_number
    [] t = "string" -> T_string
    [] t = "boolean" -> T_boolean
    [] t = "function" -> T_function

\* _invalidTypeMsg(path, type, vt, v) with the expected type given as text
\* (struct.ts 1491-1497).
invalidTypeMsg(m, path, type, vt, v) ==
  T_Expected \o type \o T_at \o pathify(path, 1) \o T_found \o
  (IF islist(m, v) /\ vt = "object" THEN TypeStr("array") ELSE TypeStr(vt)) \o
  T_colon \o stringify(m, v)

\* The type checks validate_STRING ... validate_ANY share: the value at the
\* state's key in current is returned if it has the wanted type, else one
\* error is pushed and undefined returned (struct.ts 1105-1200).
validate_TYPE(m, sa, current, want) ==
  LET st == St(m, sa)
      out == getprop(m, current, st.key)
      t == TypeOf(out)
      good == CASE want = "string" -> t = "string"
                [] want = "number" -> t = "number"
                [] want = "boolean" -> t = "boolean"
                [] want = "object" -> ~IsNullish(out) /\ t = "object"
                [] want = "array" -> islist(m, out)
                [] want = "function" -> t = "function"
                [] want = "any" -> TRUE
  IN IF ~good
     THEN Ret(PushErr(m, sa, invalidTypeMsg(m, st.path, TypeStr(want), t, out)), UNDEF)
     ELSE IF want = "string" /\ out = Str(S_MT)
       THEN Ret(PushErr(m, sa, T_EmptyString \o pathify(st.path, 1)), UNDEF)
     ELSE Ret(m, out)

\* The loop of validate_CHILD over the keys of the data map
\* (struct.ts 1231-1236).
ChildKeys(m, sa, child, ckeys, i) ==
  IF ~Ok(m) \/ i > Len(ckeys) THEN m
  ELSE Then(clone(m, child), LAMBDA m1 :
       Then(setprop(m1, St(m, sa).parent, Str(ckeys[i]), m1.ret), LAMBDA m2 :
       Run("ChildKeys",
           <<[m2 EXCEPT !.h[St(m, sa).keys.a].es = Append(@, Str(ckeys[i]))],
             sa, child, ckeys, i + 1>>)))

\* current.map((_n, i) => parent[i] = clone(child)) (struct.ts 1269)
ChildElems(m, parent, child, n, i) ==
  IF ~Ok(m) \/ i >= n THEN m
  ELSE Then(clone(m, child), LAMBDA m1 :
       With(Obj(m1, parent).es, LAMBDA es :
       Run("ChildElems",
           <<IF i < Len(es) THEN [m1 EXCEPT !.h[parent.a].es[i + 1] = m1.ret]
             ELSE [m1 EXCEPT !.h[parent.a].es =
                     es \o [j \in 1..(i - Len(es)) |-> UNDEF] \o <<m1.ret>>],
             parent, child, n, i + 1>>)))

\* arr.length = n
SetLength(m, arr, n) ==
  IF ~Ok(m) THEN m
  ELSE LET es == Obj(m, arr).es
       IN [m EXCEPT !.h[arr.a].es =
             IF n <= Len(es) THEN SubSeq(es, 1, n)
             ELSE es \o [j \in 1..(n - Len(es)) |-> UNDEF]]

\* validate_CHILD (struct.ts 1207-1277)
validate_CHILD(m, sa, current) ==
  LET st == St(m, sa)
  IN IF st.mode = S_MKEYPRE THEN
       LET child == getprop(m, st.parent, st.key)
           tval0 == getprop(m, current, PathKey2(m, sa))
       IN IF ~IsNullish(tval0) /\ ~ismap(m, tval0)
          THEN Ret(PushErr(m, sa, invalidTypeMsg(m, SubSeq(st.path, 1, Len(st.path) - 1),
                                   TypeStr("object"), TypeOf(tval0), tval0)), UNDEF)
          ELSE LET ckeys == IF IsNullish(tval0) THEN << >> ELSE keysof(m, tval0)
                   m1 == Run("ChildKeys", <<m, sa, child, ckeys, 1>>)
               IN Ret(setprop(m1, st.parent, st.key, UNDEF), UNDEF)
     ELSE IF st.mode = S_MVAL THEN
       IF ~islist(m, st.parent)
       THEN Ret(PushErr(m, sa, T_InvalidChild), UNDEF)
       ELSE IF current = UNDEF THEN Ret(SetLength(m, st.parent, 0), UNDEF)
       ELSE IF ~islist(m, current)
         THEN LET m1 == PushErr(m, sa, invalidTypeMsg(m, SubSeq(st.path, 1, Len(st.path) - 1),
                                         TypeStr("array"), TypeOf(current), current))
              IN Ret(SetKeyI(m1, sa, Len(Obj(m1, st.parent).es)), current)
       ELSE LET n == Len(Obj(m, current).es)
                m1 == Run("ChildElems", <<m, st.parent, Index(m, st.parent, Num(1)), n, 0>>)
                m2 == SetLength(m1, st.parent, n)
            IN Ret(SetKeyI(m2, sa, 0), Index(m2, current, Num(0)))
     ELSE Ret(m, UNDEF)

\* str.replace(/`\$([A-Z]+)`/g, (_m, p1) => p1.toLowerCase()) (struct.ts 1327)
RECURSIVE LowerCmds(_, _)
LowerCmds(s, i) ==
  LET ups(b) == Span(s, b + 2, "upper")
      starts == {b \in i..(Len(s) - 3) : /\ s[b] = S_BT[1] /\ s[b + 1] = S_DS[1]
                                         /\ ups(b) >= 1
                                         /\ b + 2 + ups(b) <= Len(s)
                                         /\ s[b + 2 + ups(b)] = S_BT[1]}
  IN IF starts = {} THEN SubSeq(s, i, Len(s))
     ELSE LET b == CHOOSE x \in starts : \A y \in starts : x <= y
          IN SubSeq(s, i, b - 1) \o [j \in 1..ups(b) |-> s[b + 1 + j] + 32]
             \o LowerCmds(s, b + 3 + ups(b))

\* The loop of validate_ONE over the alternatives (struct.ts 1294-1320); ret
\* says whether an alternative matched.
OneAlts(m, sa, current, tvals, i) ==
  LET st == St(m, sa)
      m1 == NewList(m, << >>)
      terrs == m1.ret
      m2 == Run("validate", <<m1, current, tvals[i], UNDEF, terrs>>)
      grandparent == IF Len(st.nodes) >= 2 THEN st.nodes[Len(st.nodes) - 1] ELSE UNDEF
      grandkey == PathKey2(m2, sa)
  IN CASE i > Len(tvals) -> Ret(m, FALSE)
       [] OTHER ->
            IF m2.thrown # NoThrow THEN m2
            ELSE IF isnode(m2, grandparent)
              THEN IF Len(Obj(m2, terrs).es) = 0
                   THEN Ret(setprop(m2, grandparent, grandkey, current), TRUE)
                   ELSE Run("OneAlts", <<setprop(m2, grandparent, grandkey, UNDEF), sa, current,
                                tvals, i + 1>>)
            ELSE Run("OneAlts", <<m2, sa, current, tvals, i + 1>>)

\* validate_ONE (struct.ts 1283-1334)
validate_ONE(m, sa, current) ==
  LET st == St(m, sa)
      m0 == SetKeyI(m, sa, Len(Obj(m, st.keys).es))
      tvals == Tail(Obj(m0, st.parent).es)
      m1 == Run("OneAlts", <<m0, sa, current, tvals, 1>>)
      valdesc == LowerCmds(JoinWith([i \in 1..Len(tvals) |->
                             stringify(m1, tvals[i])], T_comma), 1)
  IN CASE st.mode # S_MVAL -> Ret(m, UNDEF)
       [] st.mode = S_MVAL /\ ~islist(m0, st.parent) -> Throw(m0, "TypeError")
       [] OTHER ->
            IF m1.thrown # NoThrow THEN m1
            ELSE IF m1.ret THEN Ret(m1, UNDEF)
            ELSE Ret(PushErr(m1, sa,
                       invalidTypeMsg(m1, SubSeq(st.path, 1, Len(st.path) - 1),
                                      T_oneof \o valdesc,
                                      TypeOf(current), current)), UNDEF)

\* validation(val, key, parent, state, current), the modifier validate runs
\* after every injected value (struct.ts 1339-1413).
validation(m, val, key, parent, sa, current) ==
  LET st == St(m, sa)
      cval == getprop(m, current, key)
      pval == getprop(m, parent, key)
      t == TypeOf(pval)
      ct == TypeOf(cval)
  IN IF cval = UNDEF THEN Ret(m, UNDEF)
     ELSE IF t = "string" /\ Includes(pval.s, S_DS[1]) THEN Ret(m, UNDEF)
     ELSE IF t # ct /\ pval # UNDEF
       THEN Ret(PushErr(m, sa, invalidTypeMsg(m, st.path, TypeStr(t), ct, cval)), UNDEF)
     ELSE IF ismap(m, cval)
       THEN IF ~ismap(m, val)
            THEN Ret(PushErr(m, sa, invalidTypeMsg(m, st.path,
                       IF islist(m, val) THEN TypeStr("array") ELSE TypeStr(t), ct, cval)),
                     UNDEF)
            ELSE LET ckeys == keysof(m, cval)
                     pkeys == keysof(m, pval)
                     badkeys == SelectSeq(ckeys, LAMBDA ck : ~haskey(m, val, Str(ck)))
                 IN IF 0 < Len(pkeys) /\ getprop(m, pval, Str(S_DOPEN)) # Bool(TRUE)
                    THEN IF 0 < Len(badkeys)
                         THEN Ret(PushErr(m, sa, T_UnexpectedKeys \o
                                    pathify(st.path, 1) \o T_colon \o JoinWith(badkeys, T_comma)),
                                  UNDEF)
                         ELSE Ret(m, UNDEF)
                    ELSE LET m1 == Run("merge", <<m, <<pval, cval>>>>)
                         IN Ret(IF isnode(m1, pval) THEN setprop(m1, pval, Str(S_DOPEN), UNDEF)
                                ELSE m1, UNDEF)
     ELSE IF islist(m, cval)
       THEN IF ~islist(m, val)
            THEN Ret(PushErr(m, sa, invalidTypeMsg(m, st.path, TypeStr(t), ct, cval)), UNDEF)
            ELSE Ret(m, UNDEF)
     ELSE Ret(setprop(m, parent, key, cval), UNDEF)

---------------------------------------------------------------------------
(* transform and validate (struct.ts 1049-1100, 1427-1474).                *)

T_InvalidData == <<73, 110, 118, 97, 108, 105, 100, 32, 100, 97, 116, 97, 58, 32>>
T_WHEN == <<50, 48, 50, 54, 45, 48, 49, 45, 48, 49, 84, 48, 48, 58, 48, 48, 58, 48, 48, 46, 48, 48, 48, 90>>
T_NL == <<10>>

\* The names transform puts into the store (struct.ts 1074-1091) and the
\* ones validate adds (struct.ts 1442-1461).
TransformNames == <<<<36, 68, 69, 76, 69, 84, 69>>, <<36, 67, 79, 80, 89>>, <<36, 75, 69, 89>>, <<36, 77, 69, 84, 65>>, <<36, 77, 69, 82, 71, 69>>, <<36, 69, 65, 67, 72>>, <<36, 80, 65, 67, 75>>>>
ValidateNames == <<<<36, 83, 84, 82, 73, 78, 71>>, <<36, 78, 85, 77, 66, 69, 82>>, <<36, 66, 79, 79, 76, 69, 65, 78>>, <<36, 79, 66, 74, 69, 67, 84>>, <<36, 65, 82, 82, 65, 89>>, <<36, 70, 85, 78, 67, 84, 73, 79, 78>>,
                   <<36, 65, 78, 89>>, <<36, 67, 72, 73, 76, 68>>, <<36, 79, 78, 69>>>>

\* A call of the function value fn as an injection handler.  The clock read
\* by $WHEN is an input of the program, fixed here; a function found in the
\* caller's data is taken to return undefined.
CallFn(m, fn, sa, val, current, ref, store) ==
  CASE fn.f = <<36, 66, 84>> -> Ret(m, Str(S_BT))
    [] fn.f = <<36, 68, 83>> -> Ret(m, Str(S_DS))
    [] fn.f = <<36, 87, 72, 69, 78>> -> Ret(m, Str(T_WHEN))
    [] fn.f = <<36, 68, 69, 76, 69, 84, 69>> -> Run("transform_DELETE", <<m, sa>>)
    [] fn.f = <<36, 67, 79, 80, 89>> -> Run("transform_COPY", <<m, sa, current>>)
    [] fn.f = <<36, 75, 69, 89>> -> Run("transform_KEY", <<m, sa, current>>)
    [] fn.f = <<36, 77, 69, 84, 65>> -> Run("transform_META", <<m, sa>>)
    [] fn.f = <<36, 77, 69, 82, 71, 69>> -> Run("transform_MERGE", <<m, sa, current>>)
    [] fn.f = <<36, 69, 65, 67, 72>> -> Run("transform_EACH", <<m, sa, current, store>>)
    [] fn.f = <<36, 80, 65, 67, 75>> -> Run("transform_PACK", <<m, sa, current, store>>)
    [] fn.f = <<36, 83, 84, 82, 73, 78, 71>> -> Run("validate_TYPE", <<m, sa, current, "string">>)
    [] fn.f = <<36, 78, 85, 77, 66, 69, 82>> -> Run("validate_TYPE", <<m, sa, current, "number">>)
    [] fn.f = <<36, 66, 79, 79, 76, 69, 65, 78>> -> Run("validate_TYPE", <<m, sa, current, "boolean">>)
    [] fn.f = <<36, 79, 66, 74, 69, 67, 84>> -> Run("validate_TYPE", <<m, sa, current, "object">>)
    [] fn.f = <<36, 65, 82, 82, 65, 89>> -> Run("validate_TYPE", <<m, sa, current, "array">>)
    [] fn.f = <<36, 70, 85, 78, 67, 84, 73, 79, 78>> -> Run("validate_TYPE", <<m, sa, current, "function">>)
    [] fn.f = <<36, 65, 78, 89>> -> Run("validate_TYPE", <<m, sa, current, "any">>)
    [] fn.f = <<36, 67, 72, 73, 76, 68>> -> Run("validate_CHILD", <<m, sa, current>>)
    [] fn.f = <<36, 79, 78, 69>> -> Run("validate_ONE", <<m, sa, current>>)
    [] OTHER -> Ret(m, UNDEF)

\* The call of the modify argument of inject (struct.ts 764-773); its
\* result is not used.  A caller's callback "record" has the observer note
\* the value, key and parent it is called with.
Modify(m, modify, val, key, parent, sa, current, store) ==
  CASE modify = "validation" -> Run("validation", <<m, val, key, parent, sa, current>>)
    [] modify = "record" -> Note(m, Event(m, sa, "modify", << >>, val))
    [] OTHER -> m

\* obj = {...entries, ...more}: a key keeps the place of its first
\* occurrence and takes the value of its last.
PutEntries(es, more) ==
  LET all == es \o more
      LastV(k) == all[CHOOSE i \in 1..Len(all) :
                        /\ all[i].k = k
                        /\ \A j \in (i + 1)..Len(all) : all[j].k # k].v
      firsts == SelectSeq([i \in 1..Len(all) |-> i],
                          LAMBDA i : \A j \in 1..(i - 1) : all[j].k # all[i].k)
  IN << >> \o [n \in 1..Len(firsts) |-> [k |-> all[firsts[n]].k, v |-> LastV(all[firsts[n]].k)]]

\* transform(data, spec, extra, modify) (struct.ts 1049-1100)
transform(m, data, spec, extra, modify) ==
  Then(clone(m, spec), LAMBDA m1 :
  LET its == IF IsNullish(extra) THEN << >> ELSE items(m1, extra)
      AsEntry(n) == [k |-> n[1].s, v |-> n[2]]
      extraTransforms == PutEntries(<< >>,
         [i \in 1..Len(SelectSeq(its, LAMBDA n : StartsWith(n[1].s, S_DS))) |->
            AsEntry(SelectSeq(its, LAMBDA n : StartsWith(n[1].s, S_DS))[i])])
      extraData == PutEntries(<< >>,
         [i \in 1..Len(SelectSeq(its, LAMBDA n : ~StartsWith(n[1].s, S_DS))) |->
            AsEntry(SelectSeq(its, LAMBDA n : ~StartsWith(n[1].s, S_DS))[i])])
  IN
  With(Alloc(m1, [k |-> "map", es |-> extraData]), LAMBDA mE :
  Then(clone(mE, mE.ret), LAMBDA m2 :
  Then(IF data = UNDEF THEN NewMap(m2) ELSE clone(m2, data), LAMBDA m3 :
  Then(Run("merge", <<m3, <<m2.ret, m3.ret>>>>), LAMBDA m4 :
  With(Alloc(m4, [k |-> "map", es |->
              PutEntries(<<[k |-> S_DTOP, v |-> m4.ret],
                           [k |-> T_BT, v |-> Fn(T_BT)],
                           [k |-> T_DS, v |-> Fn(T_DS)],
                           [k |-> <<36, 87, 72, 69, 78>>, v |-> Fn(<<36, 87, 72, 69, 78>>)]>>
                         \o [i \in 1..Len(TransformNames) |->
                               [k |-> TransformNames[i], v |-> Fn(TransformNames[i])]],
                         extraTransforms)]), LAMBDA m5 :
  Run("inject", <<m5, m1.ret, m5.ret, modify, m5.ret, 0>>)))))))

\* A value that a condition takes as true.
Truthy(v) ==
  CASE v.t \in {"undef", "null"} -> FALSE
    [] v.t = "bool" -> v.b
    [] v.t = "num" -> v.n # 0
    [] v.t = "str" -> v.s # S_MT
    [] OTHER -> TRUE

\* validate(data, spec, extra, collecterrs) (struct.ts 1427-1474)
validate(m, data, spec, extra, collecterrs) ==
  LET m1 == IF Truthy(collecterrs) THEN Ret(m, collecterrs) ELSE NewList(m, << >>)
      errlist == m1.ret
      m2 == Alloc(m1, [k |-> "map", es |->
              PutEntries(<<[k |-> S_DERRS, v |-> errlist]>>
                         \o [i \in 1..Len(TransformNames) |->
                               [k |-> TransformNames[i], v |-> NULL]]
                         \o [i \in 1..Len(ValidateNames) |->
                               [k |-> ValidateNames[i], v |-> Fn(ValidateNames[i])]],
                         IF Truthy(extra) THEN Spread(m1, extra) ELSE << >>)])
      m3 == Run("transform", <<m2, data, spec, m2.ret, "validation">>)
      out == m3.ret
      msgs == IF islist(m3, errlist) THEN Obj(m3, errlist).es ELSE << >>
  IN IF m2.thrown # NoThrow THEN m2
     ELSE IF m3.thrown # NoThrow THEN m3
     ELSE IF 0 < Len(msgs) /\ IsNullish(collecterrs)
       THEN ThrowMsg(m3, "Error",
              Str(T_InvalidData \o JoinWith([i \in 1..Len(msgs) |-> KeyStr(m3, msgs[i])], T_NL)))
     ELSE Ret(m3, out)

\* The operations call each other by name: Run(f, a) is operation f applied
\* to the arguments a.
Run(f, a) ==
  CASE f = "merger" -> merger(a[1], a[2], a[3], a[4], a[5])
    [] f = "Apply" -> Apply(a[1], a[2], a[3], a[4], a[5], a[6])
    [] f = "WalkItems" -> WalkItems(a[1], a[2], a[3], a[4], a[5], a[6])
    [] f = "walk" -> walk(a[1], a[2], a[3], a[4], a[5], a[6])
    [] f = "MergeFrom" -> MergeFrom(a[1], a[2], a[3], a[4])
    [] f = "merge" -> merge(a[1], a[2])
    [] f = "getpath" -> getpath(a[1], a[2], a[3], a[4], a[5])
    [] f = "InjectParts" -> InjectParts(a[1], a[2], a[3], a[4], a[5], a[6], a[7])
    [] f = "injectstr" -> injectstr(a[1], a[2], a[3], a[4], a[5])
    [] f = "injecthandler" -> injecthandler(a[1], a[2], a[3], a[4], a[5], a[6])
    [] f = "InjectLoop" -> InjectLoop(a[1], a[2], a[3], a[4], a[5], a[6], a[7], a[8])
    [] f = "inject" -> inject(a[1], a[2], a[3], a[4], a[5], a[6])
    [] f = "transform_DELETE" -> transform_DELETE(a[1], a[2])
    [] f = "transform_COPY" -> transform_COPY(a[1], a[2], a[3])
    [] f = "transform_KEY" -> transform_KEY(a[1], a[2], a[3])
    [] f = "transform_META" -> transform_META(a[1], a[2])
    [] f = "transform_MERGE" -> transform_MERGE(a[1], a[2], a[3])
    [] f = "EachClones" -> EachClones(a[1], a[2], a[3], a[4], a[5], a[6])
    [] f = "transform_EACH" -> transform_EACH(a[1], a[2], a[3], a[4])
    [] f = "PackTarget" -> PackTarget(a[1], a[2], a[3], a[4], a[5], a[6])
    [] f = "PackCurrent" -> PackCurrent(a[1], a[2], a[3], a[4], a[5])
    [] f = "transform_PACK" -> transform_PACK(a[1], a[2], a[3], a[4])
    [] f = "validate_TYPE" -> validate_TYPE(a[1], a[2], a[3], a[4])
    [] f = "ChildKeys" -> ChildKeys(a[1], a[2], a[3], a[4], a[5])
    [] f = "ChildElems" -> ChildElems(a[1], a[2], a[3], a[4], a[5])
    [] f = "validate_CHILD" -> validate_CHILD(a[1], a[2], a[3])
    [] f = "OneAlts" -> OneAlts(a[1], a[2], a[3], a[4], a[5])
    [] f = "validate_ONE" -> validate_ONE(a[1], a[2], a[3])
    [] f = "validation" -> validation(a[1], a[2], a[3], a[4], a[5], a[6])
    [] f = "CallFn" -> CallFn(a[1], a[2], a[3], a[4], a[5], a[6], a[7])
    [] f = "Modify" -> Modify(a[1], a[2], a[3], a[4], a[5], a[6], a[7], a[8])
    [] f = "transform" -> transform(a[1], a[2], a[3], a[4],
                                    IF Len(a) < 5 THEN "absent" ELSE a[5])
    [] f = "validate" -> validate(a[1], a[2], a[3], a[4], a[5])
    [] f = "clone" -> clone(a[1], a[2])
    [] f = "setprop" -> Ret(setprop(a[1], a[2], a[3], a[4]), a[2])
    [] f = "getprop" -> Ret(a[1], getprop3(a[1], a[2], a[3], a[4]))
    [] f = "keysof" -> KeysofList(a[1], a[2])
    [] f = "items" -> ItemsList(a[1], a[2])
    [] f = "getpath4" -> getpath4(a[1], a[2], a[3], a[4], a[5])

---------------------------------------------------------------------------
(* Literals.  A caller's argument is written as a tree: a scalar value, or *)
(* TMap of entries in the order the literal lists them, or TList.          *)

TMap(es) == [t |-> "map", es |-> es]
TList(es) == [t |-> "list", es |-> es]
TE(k, v) == [k |-> k, v |-> v]

\* The evaluation of a literal: its nodes are allocated on the heap and ret
\* is the value.
RECURSIVE Build(_, _)
RECURSIVE BuildEs(_, _, _, _, _)
Build(m, tree) ==
  LET m1 == BuildEs(m, tree.es, 1, << >>, tree.t = "map")
  IN CASE tree.t \notin {"map", "list"} -> Ret(m, tree)
       [] OTHER -> IF m1.thrown # NoThrow THEN m1
                   ELSE Alloc(m1, [k |-> tree.t, es |-> m1.ret])

BuildEs(m, es, i, acc, isMap) ==
  LET m1 == Build(m, IF isMap THEN es[i].v ELSE es[i])
  IN CASE i > Len(es) -> Ret(m, acc)
       [] i <= Len(es) /\ m1.thrown # NoThrow -> m1
       [] OTHER -> BuildEs(m1, es, i + 1,
                           Append(acc, IF isMap THEN [k |-> es[i].k, v |-> m1.ret]
                                       ELSE m1.ret),
                           isMap)

\* The tree a value denotes in heap h, entries in stored order; Fuel bounds
\* the depth read.
Fuel == 8

RECURSIVE Dump(_, _, _)
Dump(h, v, fuel) ==
  IF ~IsRef(v) THEN v
  ELSE IF fuel = 0 THEN [t |-> "deep"]
  ELSE LET o == h[v.a]
       IN IF o.k = "map"
          THEN TMap([i \in 1..Len(o.es) |->
                       TE(o.es[i].k, Dump(h, o.es[i].v, fuel - 1))])
          ELSE IF o.k = "list"
            THEN TList([i \in 1..Len(o.es) |-> Dump(h, o.es[i], fuel - 1)])
          ELSE [t |-> "state"]

\* The entries of a map literal sorted by key.
EntryLess(e, f) == StrLess(e.k, f.k)
SortEntries(es) == SortBy(es, EntryLess)

\* A tree with the entries of every map sorted: two trees are deep-equal
\* when their normal forms are equal.
RECURSIVE Norm(_)
Norm(tree) ==
  IF tree.t = "map"
  THEN TMap(SortEntries([i \in 1..Len(tree.es) |->
                           TE(tree.es[i].k, Norm(tree.es[i].v))]))
  ELSE IF tree.t = "list"
    THEN TList([i \in 1..Len(tree.es) |-> Norm(tree.es[i])])
  ELSE tree

DeepEqual(a, b) == Norm(a) = Norm(b)

---------------------------------------------------------------------------
(* The callers.  A caller evaluates a data literal and a spec literal and  *)
(* calls transform or validate with them; a call runs to its return or to  *)
(* its exception in one step, as JavaScript runs it.                       *)

\* Bounds of the callers' arguments.
MaxNum == 2     \* the numbers in data are 0..MaxNum
MaxItems == 2   \* a list that $EACH iterates has at most MaxItems elements
MaxKeys == 3    \* the keys of a validated data map are the first MaxKeys letters
MaxShape == 2   \* the keys of its shape are the first MaxShape letters

\* Key and text literals of the callers.
K_a == <<97>>
K_b == <<98>>
K_k == <<107>>
K_m == <<109>>
K_n == <<110>>
K_p == <<112>>
K_q == <<113>>
K_v == <<118>>
K_x == <<120>>
K_y == <<121>>
K_z == <<122>>
K_k1 == <<107, 49>>                      \* 'k1'
K_adotb == <<97, 46, 98>>                \* 'a.b'
K_items == <<105, 116, 101, 109, 115>>   \* 'items'
K_list == <<108, 105, 115, 116>>         \* 'list'
K_out == <<111, 117, 116>>               \* 'out'
K_nope == <<110, 111, 112, 101>>         \* 'nope'
K_abc == <<97, 46, 98, 46, 99>>          \* 'a.b.c'
K_dotn == <<46, 110>>                    \* '.n'
K_dollar5 == <<36, 53>>                  \* '$5'
K_A == <<65>>
K_B == <<66>>

\* The i-th letter as a key: 'a', 'b', ...
KeyOf(i) == <<96 + i>>

\* A reference: the text between backticks.
Tick(s) == Str(S_BT \o s \o S_BT)

\* The sequence of the elements of a set of numbers, ascending, and the map
\* literal with the keys KeyOf(i), i in S, all holding v.
MapOf(S, v) == TMap([i \in 1..Cardinality(S) |-> TE(KeyOf(Ascending(S)[i]), v)])

Nums == {Num(i) : i \in 0..MaxNum}

\* transform(d, {x: '`k`'}) for a data map d holding k.
PathKeys == {K_a, K_k1, K_y, K_adotb, S_DTOP, <<36, 75, 69, 89>>, S_MT}
PathVals == Nums \cup {Str(K_v), Str(S_MT), NULL, Bool(TRUE), TMap(<< >>),
                       TMap(<<TE(K_b, Num(2))>>), TList(<<Num(1)>>)}
PathCases ==
  {[fam |-> "path",
    data |-> TMap((IF sib THEN <<TE(K_z, Num(0))>> ELSE << >>) \o <<TE(k, v)>>),
    spec |-> TMap(<<TE(K_x, Tick(k))>>),
    extra |-> UNDEF,
    tag |-> [key |-> k, val |-> v]] : k \in PathKeys, v \in PathVals, sib \in BOOLEAN}

\* transform({items: [{n: ..}, ..]}, {list: ['`$EACH`', 'items', {v: ref}]})
\* with ref the absolute reference `n` or the relative reference `.n`.
ItemSeqs == UNION {[1..len -> 1..MaxNum] : len \in 0..MaxItems}
EachCases ==
  {[fam |-> "each",
    data |-> TMap(<<TE(K_items,
                       TList([i \in 1..Len(ns) |-> TMap(<<TE(K_n, Num(ns[i]))>>)]))>>),
    spec |-> TMap(<<TE(K_list,
                       TList(<<Tick(<<36, 69, 65, 67, 72>>), Str(K_items),
                               TMap(<<TE(K_v, Tick(IF rel THEN K_dotn ELSE K_n))>>)>>))>>),
    extra |-> UNDEF,
    tag |-> [ns |-> ns, rel |-> rel]] : ns \in ItemSeqs, rel \in BOOLEAN}

\* The directive references of the callers' specs.
R_EACH == Tick(<<36, 69, 65, 67, 72>>)
R_PACK == Tick(<<36, 80, 65, 67, 75>>)
R_MERGE == Tick(<<36, 77, 69, 82, 71, 69>>)
R_DELETE == Tick(<<36, 68, 69, 76, 69, 84, 69>>)
R_COPY == Tick(<<36, 67, 79, 80, 89>>)
R_NUMBER == Tick(<<36, 78, 85, 77, 66, 69, 82>>)
R_STRING == Tick(<<36, 83, 84, 82, 73, 78, 71>>)
R_ONE == Tick(<<36, 79, 78, 69>>)
R_CHILD == Tick(<<36, 67, 72, 73, 76, 68>>)

\* A tree under the key p of a map, or the tree itself.
Under(nested, tree) == IF nested THEN TMap(<<TE(K_p, tree)>>) ELSE tree

\* validate({a: v}, {a: '`$NUMBER`'}); v = UNDEF stands for data without a.
SlotVals == Nums \cup {UNDEF, Str(K_x), Str(S_MT), NULL, Bool(FALSE), TMap(<< >>),
                       TMap(<<TE(K_b, Num(1))>>), TList(<< >>), TList(<<Num(1)>>)}
NumberCases ==
  {[fam |-> "number",
    data |-> TMap(IF v = UNDEF THEN << >> ELSE <<TE(K_a, v)>>),
    spec |-> TMap(<<TE(K_a, R_NUMBER)>>),
    tag |-> [val |-> v]] : v \in SlotVals}

\* validate of a data map with the keys dks against a shape map with the keys
\* sks, both at the root or both under the key p.
ShapeCases ==
  {[fam |-> "closed",
    data |-> Under(nested, MapOf(dks, Num(1))),
    spec |-> Under(nested, MapOf(sks, Num(0))),
    tag |-> [dks |-> dks, sks |-> sks, nested |-> nested]] :
     dks \in SUBSET (1..MaxKeys), sks \in (SUBSET (1..MaxShape)) \ {{}},
     nested \in BOOLEAN}

\* validate of a data map with the keys dks against an open shape, both at
\* the root or both under the key p, and of data without p against a shape
\* with an open shape under p.  The open shapes are the empty map and maps
\* with the marker `$OPEN`: true.
OpenShapes ==
  {TMap(<< >>), TMap(<<TE(S_DOPEN, Bool(TRUE))>>),
   TMap(<<TE(S_DOPEN, Bool(TRUE)), TE(K_a, Num(0))>>),
   TMap(<<TE(K_a, Num(0)), TE(S_DOPEN, Bool(TRUE))>>)}
OpenCases ==
  {[fam |-> "open",
    data |-> Under(nested, MapOf(dks, Num(1))),
    spec |-> Under(nested, shape),
    tag |-> [dks |-> dks, shape |-> shape, nested |-> nested, absent |-> FALSE]] :
     dks \in SUBSET (1..MaxKeys), shape \in OpenShapes, nested \in BOOLEAN}
  \cup
  {[fam |-> "open",
    data |-> TMap(<< >>),
    spec |-> Under(TRUE, shape),
    tag |-> [dks |-> {}, shape |-> shape, nested |-> TRUE, absent |-> TRUE]] :
     shape \in OpenShapes}

\* validate(d, ['`$ONE`', alt, ..]), at the root or under the key p.
Alts == {R_STRING, R_NUMBER, TMap(<<TE(K_a, R_STRING)>>), TMap(<<TE(K_a, R_NUMBER)>>)}
AltSeqs == UNION {[1..len -> Alts] : len \in 1..2}
OneData == {Num(1), Str(K_A), TMap(<<TE(K_a, Num(1))>>), TMap(<<TE(K_a, Str(K_A))>>)}
OneCases ==
  {[fam |-> "one",
    data |-> Under(nested, d),
    spec |-> Under(nested, TList(<<R_ONE>> \o alts)),
    tag |-> [d |-> d, alts |-> alts, nested |-> nested]] :
     d \in OneData, alts \in AltSeqs, nested \in BOOLEAN}

\* validate({a: v}, {a: lit}) for a scalar literal; v = UNDEF stands for
\* data without a.
Literals == {Num(1), Str(K_A), Str(K_dollar5), Bool(FALSE)}
DataVals == {UNDEF, Num(2), Str(K_B), Bool(TRUE), NULL, TMap(<< >>), TList(<<Num(1)>>)}
DefaultCases ==
  {[fam |-> "default",
    data |-> TMap(IF v = UNDEF THEN << >> ELSE <<TE(K_a, v)>>),
    spec |-> TMap(<<TE(K_a, lit)>>),
    tag |-> [val |-> v, lit |-> lit]] : v \in DataVals, lit \in Literals}

\* Calls of transform with the directives, well-formed and malformed.
DataAB == TMap(<<TE(K_a, Num(1)), TE(K_b, TMap(<<TE(K_y, Num(2))>>))>>)
DataItems ==
  TMap(<<TE(K_items, TList(<<TMap(<<TE(K_n, Num(1)), TE(K_k, Str(K_p))>>),
                             TMap(<<TE(K_n, Num(2)), TE(K_k, Str(K_q))>>)>>))>>)
DataM ==
  TMap(<<TE(K_m, TMap(<<TE(K_p, TMap(<<TE(K_n, Num(1)), TE(K_k, Str(K_x))>>)),
                        TE(K_q, TMap(<<TE(K_n, Num(2)), TE(K_k, Str(K_z))>>))>>))>>)
PackChild == TMap(<<TE(S_DKEY, Str(K_k)), TE(K_v, Tick(K_dotn))>>)

DirCall(d, s, e, malformed) ==
  [fam |-> "dir", data |-> d, spec |-> s, extra |-> e, tag |-> [malformed |-> malformed]]

TransformDirCases ==
  {DirCall(DataAB, TMap(<<TE(K_x, TMap(<<TE(R_MERGE.s, Tick(K_b)), TE(K_z, Num(5))>>))>>),
           UNDEF, FALSE),
   DirCall(DataAB, TMap(<<TE(R_MERGE.s, Str(S_MT)), TE(K_z, Num(5))>>), UNDEF, FALSE),
   DirCall(DataAB, TMap(<<TE(K_a, R_DELETE), TE(K_b, Num(2))>>), UNDEF, FALSE),
   DirCall(DataAB, TMap(<<TE(K_a, R_COPY), TE(K_b, Num(2))>>), UNDEF, FALSE),
   DirCall(DataAB, TMap(<<TE(K_x, Tick(K_q))>>), TMap(<<TE(K_q, Num(2))>>), FALSE),
   DirCall(UNDEF, TMap(<<TE(K_x, Tick(K_q))>>), TMap(<<TE(K_q, Num(2))>>), FALSE),
   DirCall(DataM, TMap(<<TE(K_list, TList(<<R_EACH, Str(K_m),
              TMap(<<TE(K_v, Tick(K_dotn)), TE(K_k, Str(S_DKEY))>>)>>))>>), UNDEF, FALSE),
   DirCall(DataItems, TMap(<<TE(K_out, TMap(<<TE(R_PACK.s,
              TList(<<Str(K_items), PackChild>>))>>))>>), UNDEF, FALSE),
   DirCall(DataM, TMap(<<TE(K_out, TMap(<<TE(R_PACK.s,
              TList(<<Str(K_m), PackChild>>))>>))>>), UNDEF, FALSE),
   DirCall(TMap(<< >>), TList(<<R_EACH>>), UNDEF, TRUE),
   DirCall(TMap(<< >>), TMap(<<TE(K_x, R_EACH)>>), UNDEF, TRUE),
   DirCall(DataAB, TMap(<<TE(K_x, TList(<<R_EACH, Str(K_nope), TMap(<< >>)>>))>>),
           UNDEF, TRUE),
   DirCall(DataAB, TMap(<<TE(K_x, Tick(K_abc))>>), UNDEF, TRUE),
   DirCall(DataAB, TMap(<<TE(K_x, R_MERGE)>>), UNDEF, TRUE),
   DirCall(DataAB, TMap(<<TE(R_EACH.s, Num(1))>>), UNDEF, TRUE),
   DirCall(TMap(<< >>), TMap(<<TE(R_PACK.s, Num(1))>>), UNDEF, TRUE),
   DirCall(TMap(<< >>), TMap(<<TE(R_PACK.s, NULL)>>), UNDEF, TRUE),
   DirCall(DataAB, TMap(<<TE(K_x, TMap(<<TE(R_PACK.s, TList(<<Str(K_nope)>>))>>))>>),
           UNDEF, TRUE)}

\* Calls of validate with $CHILD, and with directives out of place.
ValidateDirCases ==
  {DirCall(TMap(<<TE(K_a, TMap(<<TE(K_x, Num(1)), TE(K_y, Num(2))>>))>>),
           TMap(<<TE(K_a, TMap(<<TE(R_CHILD.s, R_NUMBER)>>))>>), UNDEF, FALSE),
   DirCall(TMap(<<TE(K_a, TList(<<Num(1), Num(2)>>))>>),
           TMap(<<TE(K_a, TList(<<R_CHILD, R_NUMBER>>))>>), UNDEF, FALSE),
   DirCall(DataAB, TMap(<<TE(K_a, R_NUMBER), TE(K_b, TMap(<<TE(K_y, R_NUMBER)>>))>>),
           UNDEF, FALSE),
   DirCall(TMap(<<TE(K_a, Num(1))>>), TMap(<<TE(K_a, R_CHILD)>>), UNDEF, TRUE),
   DirCall(TMap(<<TE(K_a, Num(1))>>), TMap(<<TE(K_a, R_ONE)>>), UNDEF, TRUE)}

\* transform({a: A, b: B}, {..siblings.., '`$MERGE`': arg}) with arg the
\* reference '`a`', the list ['`a`'] or the list ['`a`', '`b`'], the spec map
\* at the root or under the key p.
MergeSources ==
  {TMap(<< >>), TMap(<<TE(K_x, Num(1))>>), TMap(<<TE(K_x, Num(2)), TE(K_y, Num(3))>>),
   TMap(<<TE(K_y, TMap(<<TE(K_z, Num(1))>>))>>),
   TMap(<<TE(K_y, TMap(<<TE(K_z, Num(2)), TE(K_v, Num(2))>>))>>),
   TMap(<<TE(K_y, TList(<<Num(7)>>))>>)}
MergeSiblings ==
  {<< >>, <<TE(K_x, Num(9))>>, <<TE(K_y, TMap(<<TE(K_z, Num(9))>>))>>,
   <<TE(K_q, Tick(K_b \o S_DT \o K_x))>>}
MergeArg(form) ==
  CASE form = "one" -> Tick(K_a)
    [] form = "list1" -> TList(<<Tick(K_a)>>)
    [] form = "list2" -> TList(<<Tick(K_a), Tick(K_b)>>)
MergeDirCases ==
  {[fam |-> "mergedir",
    data |-> TMap(<<TE(K_a, A), TE(K_b, B)>>),
    spec |-> Under(nested, TMap(<<TE(R_MERGE.s, MergeArg(form))>> \o sibs)),
    extra |-> UNDEF,
    tag |-> [a |-> A, b |-> B, form |-> form, sibs |-> sibs, nested |-> nested]] :
     A \in MergeSources, B \in MergeSources, form \in {"one", "list1", "list2"},
     sibs \in MergeSiblings, nested \in BOOLEAN}

\* transform({a: 5}, spec) with spec a list, or a map with the keys x, y and
\* z, whose values are numbers, strings, the reference '`a`' and `$DELETE`,
\* at the root or under the key p.
MaxSlots == 3   \* the entries of a spec node that holds `$DELETE` values
SlotSpecs == {Num(1), Str(K_k), Tick(K_a), R_DELETE}
SlotSeqs == UNION {[1..n -> SlotSpecs] : n \in 0..MaxSlots}
SlotKeys == <<K_x, K_y, K_z>>
DeleteCases ==
  {[fam |-> "delete",
    data |-> TMap(<<TE(K_a, Num(5))>>),
    spec |-> Under(nested, IF list THEN TList(vs)
                           ELSE TMap([i \in 1..Len(vs) |-> TE(SlotKeys[i], vs[i])])),
    extra |-> UNDEF,
    tag |-> [vs |-> vs, list |-> list, nested |-> nested]] :
     vs \in SlotSeqs, list \in BOOLEAN, nested \in BOOLEAN}

\* validate(d, ['`$CHILD`', '`$NUMBER`']) for a data list d and
\* validate(d, {'`$CHILD`': '`$NUMBER`'}) for a data map d with the keys a, b
\* and c, and both for absent data; at the root or under the key p.
MaxChildren == 3   \* the children of the data node that `$CHILD` validates
ChildVals == {Num(1), Num(2), Str(K_x)}
ChildSeqs == UNION {[1..n -> ChildVals] : n \in 0..MaxChildren}
ChildData(vs, list) ==
  IF list THEN TList(vs) ELSE TMap([i \in 1..Len(vs) |-> TE(KeyOf(i), vs[i])])
ChildShape(list) ==
  IF list THEN TList(<<R_CHILD, R_NUMBER>>) ELSE TMap(<<TE(R_CHILD.s, R_NUMBER)>>)
ChildCases ==
  {[fam |-> "child",
    data |-> Under(nested, ChildData(vs, list)),
    spec |-> Under(nested, ChildShape(list)),
    tag |-> [vs |-> vs, list |-> list, nested |-> nested, absent |-> FALSE]] :
     vs \in ChildSeqs, list \in BOOLEAN, nested \in BOOLEAN}
  \cup
  {[fam |-> "child",
    data |-> IF nested THEN TMap(<< >>) ELSE UNDEF,
    spec |-> Under(nested, ChildShape(list)),
    tag |-> [vs |-> << >>, list |-> list, nested |-> nested, absent |-> TRUE]] :
     list \in BOOLEAN, nested \in BOOLEAN}

\* Data whose keys and strings are spelled like references and directives:
\* validate({k: v}, shape) and validate([v], shape) with the shapes of
\* `$CHILD` and `$ONE`, and transform with `$EACH`, `$PACK`, `$MERGE` and a
\* reference over data holding k and v.
WildKeys == {K_a, R_CHILD.s, R_ONE.s, R_EACH.s, R_PACK.s, R_MERGE.s, S_DKEY}
WildVals == {Num(1), R_CHILD, R_ONE, R_EACH, R_DELETE, Tick(K_a)}
WildShapes ==
  {ChildShape(FALSE), ChildShape(TRUE), TList(<<R_ONE, R_NUMBER, R_STRING>>),
   TMap(<<TE(K_a, R_STRING)>>)}
WildValidateCases ==
  {[fam |-> "wild",
    data |-> Under(nested, IF list THEN TList(<<v>>) ELSE TMap(<<TE(k, v)>>)),
    spec |-> Under(nested, shape),
    tag |-> [k |-> k, v |-> v, list |-> list, shape |-> shape, nested |-> nested]] :
     k \in WildKeys, v \in WildVals, list \in BOOLEAN, shape \in WildShapes,
     nested \in BOOLEAN}
WildSpecs ==
  {TMap(<<TE(K_x, Tick(K_items))>>),
   TMap(<<TE(R_MERGE.s, Tick(K_items \o S_DT \o <<48>>))>>),
   TMap(<<TE(K_list, TList(<<R_EACH, Str(K_items), TMap(<<TE(K_v, Tick(K_dotn))>>)>>))>>),
   TMap(<<TE(K_out, TMap(<<TE(R_PACK.s, TList(<<Str(K_items), PackChild>>))>>))>>)}
WildTransformCases ==
  {[fam |-> "wild",
    data |-> TMap(<<TE(K_items, TList(<<TMap(<<TE(K_n, v), TE(K_k, Str(k))>>)>>))>>),
    spec |-> s,
    extra |-> UNDEF,
    tag |-> [k |-> k, v |-> v, spec |-> s]] :
     k \in WildKeys, v \in WildVals, s \in WildSpecs}

\* transform({a: 5}, spec, {f: function, $G: function}) with spec the list
\* [s, 'k'] or the map {x: s, y: 'k'}, for a string s that is one reference
\* or holds one reference between other text.
K_f == <<102>>
K_G == <<36, 71>>                        \* '$G'
DispatchRefs == {K_a, K_f, K_G, R_DELETE.s, R_COPY.s, K_nope}
DispatchRef(r) == IF Len(r) > 2 /\ r[1] = S_BT[1] THEN SubSeq(r, 2, Len(r) - 1) ELSE r
DispatchText(r, form) ==
  CASE form = "full" -> S_BT \o r \o S_BT
    [] form = "before" -> K_x \o S_BT \o r \o S_BT
    [] form = "after" -> S_BT \o r \o S_BT \o K_y
    [] form = "between" -> K_x \o S_BT \o r \o S_BT \o K_y
DispatchCases ==
  {[fam |-> "dispatch",
    data |-> TMap(<<TE(K_a, Num(5))>>),
    spec |-> IF list THEN TList(<<Str(DispatchText(DispatchRef(r), form)), Str(K_k)>>)
             ELSE TMap(<<TE(K_x, Str(DispatchText(DispatchRef(r), form))),
                         TE(K_y, Str(K_k))>>),
    extra |-> TMap(<<TE(K_f, Fn(K_f)), TE(K_G, Fn(K_G))>>),
    tag |-> [ref |-> DispatchRef(r), form |-> form, list |-> list]] :
     r \in DispatchRefs, form \in {"full", "before", "after", "between"},
     list \in BOOLEAN}

\* validate({a: 'x', b: 'x', c$: 'x'}, shape, undefined, errs) with shape a
\* map that holds two or more of the entries a: '`$NUMBER`', b: '`$NUMBER`',
\* c$: '`$NUMBER`' and '`$OPEN`': true, written in any order.
K_cD == <<99, 36>>                       \* 'c$'
OrderEntries ==
  {TE(K_a, R_NUMBER), TE(K_b, R_NUMBER), TE(K_cD, R_NUMBER), TE(S_DOPEN, Bool(TRUE))}
OrderSeqs ==
  UNION {{es \in [1..n -> OrderEntries] : \A i, j \in 1..n : es[i] = es[j] => i = j} :
           n \in 2..Cardinality(OrderEntries)}
OrderCases ==
  {[fam |-> "order",
    data |-> TMap(<<TE(K_a, Str(K_x)), TE(K_b, Str(K_x)), TE(K_cD, Str(K_x))>>),
    spec |-> TMap(es),
    tag |-> [keys |-> [i \in 1..Len(es) |-> es[i].k]]] : es \in OrderSeqs}

\* transform(d, spec) with spec the map {'`$MERGE`': '', ..own entries..} at
\* the root, under the key p, or under the keys p and q.
MaxDepth == 2   \* the keys above the map that holds `$MERGE`
TopData ==
  {TMap(<< >>), TMap(<<TE(K_x, Num(1))>>),
   TMap(<<TE(K_x, Num(1)), TE(K_y, TMap(<<TE(K_z, Num(2))>>))>>),
   TMap(<<TE(K_p, TMap(<<TE(K_x, Num(3))>>)), TE(K_x, Num(1))>>),
   TMap(<<TE(K_p, TMap(<<TE(K_q, TMap(<<TE(K_x, Num(4))>>))>>)), TE(K_y, Num(2))>>)}
TopOwn == {<< >>, <<TE(K_x, Num(9))>>, <<TE(K_v, Num(7))>>}
TopPath(depth) == SubSeq(<<K_p, K_q>>, 1, depth)
RECURSIVE UnderPath(_, _)
UnderPath(path, tree) ==
  IF path = << >> THEN tree ELSE TMap(<<TE(path[1], UnderPath(Tail(path), tree))>>)
MergeTopCases ==
  {[fam |-> "mergetop",
    data |-> d,
    spec |-> UnderPath(TopPath(depth), TMap(<<TE(R_MERGE.s, Str(S_MT))>> \o own)),
    extra |-> UNDEF,
    tag |-> [own |-> own, depth |-> depth]] :
     d \in TopData, own \in TopOwn, depth \in 0..MaxDepth}

\* transform(d, spec, undefined, modify) with a callback that records its
\* calls: a spec of references in maps and lists, and specs with `$EACH` and
\* `$PACK`.
ModifySpecs ==
  {[data |-> DataAB, kind |-> "plain",
    spec |-> TMap(<<TE(K_x, Tick(K_a)),
                    TE(K_y, TMap(<<TE(K_z, Tick(K_b \o S_DT \o K_y)),
                                   TE(K_v, TList(<<Num(1), Tick(K_a)>>))>>))>>)],
   [data |-> DataAB, kind |-> "plain", spec |-> Tick(K_a)],
   [data |-> DataAB, kind |-> "plain", spec |-> TList(<<Str(K_k), TMap(<< >>)>>)],
   [data |-> DataItems, kind |-> "each",
    spec |-> TMap(<<TE(K_list, TList(<<R_EACH, Str(K_items),
                                       TMap(<<TE(K_v, Tick(K_dotn))>>)>>))>>)],
   [data |-> DataM, kind |-> "each",
    spec |-> TMap(<<TE(K_list, TList(<<R_EACH, Str(K_m),
                                       TMap(<<TE(K_v, Tick(K_dotn))>>)>>))>>)],
   [data |-> DataItems, kind |-> "pack",
    spec |-> TMap(<<TE(K_out, TMap(<<TE(R_PACK.s,
                                       TList(<<Str(K_items), PackChild>>))>>))>>)]}
ModifyCases ==
  {[fam |-> "modify", data |-> c.data, spec |-> c.spec, extra |-> UNDEF,
    tag |-> [kind |-> c.kind]] : c \in ModifySpecs}

\* The other families pass no extra argument.
NoExtra(cs) ==
  {[fam |-> c.fam, data |-> c.data, spec |-> c.spec, extra |-> UNDEF, tag |-> c.tag] :
     c \in cs}

TransformCases ==
  PathCases \cup EachCases \cup TransformDirCases \cup MergeDirCases \cup DeleteCases
    \cup WildTransformCases \cup DispatchCases \cup MergeTopCases \cup ModifyCases
ValidateCases ==
  NoExtra(NumberCases \cup ShapeCases \cup OpenCases \cup OneCases \cup DefaultCases
            \cup ChildCases \cup WildValidateCases \cup OrderCases)
    \cup ValidateDirCases

\* The callers of the utility functions.  A call of one of them is recorded
\* like a call of transform: data is the literal of its first argument, tag
\* its other arguments.
UtilCall(fam, v, tag) ==
  [fam |-> fam, data |-> v, spec |-> UNDEF, extra |-> UNDEF, tag |-> tag]

\* A string of the form the replacer of clone writes for a function.
T_funcref0 == T_funcref \o <<48>> \o S_BT   \* '`$FUNCTION:0`'

\* clone(v): scalars, and maps and lists of them, to depth two.
CloneLeaves == {Num(1), Str(K_a), Str(S_MT), Str(T_funcref0), Bool(TRUE), NULL, Fn(K_x)}
CloneNodes ==
  {TMap(<< >>), TList(<< >>)}
    \cup {TMap(<<TE(K_a, l)>>) : l \in CloneLeaves}
    \cup {TList(<<l>>) : l \in CloneLeaves}
    \cup {TMap(<<TE(K_b, l), TE(K_a, Fn(K_y))>>) : l \in CloneLeaves}
    \cup {TList(<<l, Fn(K_y)>>) : l \in CloneLeaves}
CloneVals ==
  {UNDEF} \cup CloneLeaves \cup CloneNodes
    \cup {TMap(<<TE(K_p, n), TE(K_q, Num(2))>>) : n \in CloneNodes}
    \cup {TList(<<n>>) : n \in CloneNodes}
CloneCases == {UtilCall("clone", v, UNDEF) : v \in CloneVals}

\* merge([v1, v2]) and merge([v1, v2, v3]): maps with scalar, map and list
\* entries, lists, and scalars.
MergeEntryVals ==
  {Num(1), Num(2), NULL, TMap(<< >>), TList(<< >>),
   TMap(<<TE(K_x, Num(1))>>), TMap(<<TE(K_y, Num(2))>>), TMap(<<TE(K_b, Num(2))>>),
   TMap(<<TE(K_x, TMap(<<TE(K_y, Num(2))>>))>>),
   TList(<<Num(1)>>), TList(<<Num(5)>>), TList(<<Num(1), Num(2)>>)}
MergeMaps ==
  {TMap(<< >>)}
    \cup {TMap(<<TE(K_a, v)>>) : v \in MergeEntryVals}
    \cup {TMap(<<TE(K_a, v), TE(K_b, Num(3))>>) : v \in MergeEntryVals}
MergeVals ==
  MergeMaps \cup {Num(1), UNDEF, TList(<<Num(1)>>),
                  TList(<<TMap(<<TE(K_x, Num(1))>>), Num(2)>>)}
MergeLists ==
  {<< >>} \cup {<<v>> : v \in MergeVals}
    \cup {<<v, w>> : v \in MergeVals, w \in MergeVals}
    \cup {<<TMap(<<TE(K_a, Num(1))>>), v, TMap(<<TE(K_b, Num(2))>>)>> : v \in MergeVals}
MergeCases == {UtilCall("merge", TList(vs), UNDEF) : vs \in MergeLists}

\* walk(v, visitor) with a recording visitor: trees to depth three.
WalkLeaves == {Num(1), Str(K_a), NULL}
WalkNodes ==
  {TMap(<< >>), TList(<< >>), TMap(<<TE(K_b, Num(1))>>)}
    \cup {TMap(<<TE(K_b, l), TE(K_a, Num(2))>>) : l \in WalkLeaves}
    \cup {TList(<<l, Num(2)>>) : l \in WalkLeaves}
WalkVals ==
  WalkLeaves \cup WalkNodes
    \cup {TMap(<<TE(K_a, n)>>) : n \in WalkNodes}
    \cup {TMap(<<TE(K_y, n), TE(K_x, TList(<<n>>))>>) : n \in WalkNodes}
    \cup {TList(<<n, Num(1)>>) : n \in WalkNodes}
WalkCases == {UtilCall("walk", v, f) : v \in WalkVals, f \in {"record", "bump"}}

\* setprop(parent, key, val): maps, lists and values that are not nodes as
\* parent; strings, numbers and other values as key.
MaxLen == 3     \* a list literal given to setprop has at most MaxLen elements
SetParents ==
  {TMap(<< >>), TMap(<<TE(K_x, Num(17))>>), TMap(<<TE(K_a, Num(1)), TE(K_b, Num(2))>>),
   TMap(<<TE(<<48>>, Num(5)), TE(K_a, NULL)>>)}
    \cup {TList([i \in 1..n |-> Num(i)]) : n \in 0..MaxLen}
    \cup {UNDEF, NULL, Num(1), Str(K_a)}
SetKeys ==
  {Str(K_a), Str(K_z), Str(<<48>>), Str(<<49>>), Str(<<45, 49>>), Str(S_MT), Str(S_toString),
   Num(0), Num(1), Num(2), Num(5), Num(-1), UNDEF, NULL, Bool(TRUE)}
SetVals == {UNDEF, NULL, Num(0), Num(7), Str(K_v)}
SetCases ==
  {UtilCall("setprop", p, [key |-> k, val |-> x]) :
     p \in SetParents, k \in SetKeys, x \in SetVals}

\* getprop(val, key, alt): the parents and keys of setprop, a map with a node
\* as entry, and the names 'length' and 'x' as keys.
GetVals == SetParents \cup {TMap(<<TE(K_a, TList(<<Num(1)>>)), TE(K_b, NULL)>>)}
GetKeys == SetKeys \cup {Str(S_length), Str(K_x)}
GetAlts == {UNDEF, Num(9)}
GetCases ==
  {UtilCall("getprop", v, [key |-> k, alt |-> alt]) :
     v \in GetVals, k \in GetKeys, alt \in GetAlts}

\* getpath(path, store, current, state): dotted strings and the key lists
\* they split into, the empty list and a list with a number; stores with
\* and without a wrapper entry p; a state that is absent or names a base.
PathStrs ==
  {S_MT, K_a, K_a \o S_DT \o K_b, K_q, K_a \o S_DT \o K_z \o S_DT \o K_b,
   S_DT \o K_b, S_DT \o K_a \o S_DT \o K_b, K_z, K_a \o S_DT \o <<49>> \o S_DT \o K_b,
   S_DT, K_p \o S_DT \o K_q}
PathLists ==
  {TList([i \in 1..Len(Split(p)) |-> Str(Split(p)[i])]) : p \in PathStrs}
    \cup {TList(<< >>), TList(<<Str(K_a), Num(1), Str(K_b)>>)}
Paths == {Str(p) : p \in PathStrs} \cup PathLists \cup {UNDEF, NULL}
Wrapped == TMap(<<TE(K_a, TMap(<<TE(K_b, Num(2))>>)), TE(K_q, Num(3))>>)
Stores ==
  {TMap(<<TE(K_a, TMap(<<TE(K_b, Num(1))>>)), TE(K_p, Wrapped)>>),
   TMap(<<TE(K_p, Wrapped)>>),
   TMap(<<TE(K_a, TList(<<Num(1), TMap(<<TE(K_b, Num(2))>>)>>))>>),
   UNDEF, NULL, Num(1)}
Currents == {UNDEF, TMap(<<TE(K_b, Num(5)), TE(K_a, TMap(<<TE(K_b, Num(6))>>))>>)}
PathStates == {UNDEF, TMap(<<TE(S_base, Str(K_p))>>), TMap(<<TE(S_base, Str(K_z))>>)}
GetpathCases ==
  {UtilCall("getpath", st, [path |-> p, current |-> cur, state |-> state]) :
     st \in Stores, p \in Paths, cur \in Currents, state \in PathStates}

\* keysof(val) and items(val): maps whose literals list the same keys in
\* different orders, with digits, capitals and longer names among the keys;
\* lists; values that are not nodes.
K_ab == <<97, 98>>
K_10 == <<49, 48>>
K_9 == <<57>>
KeyedVals ==
  {TMap(<< >>), TMap(<<TE(K_b, Num(1)), TE(K_a, Num(2))>>),
   TMap(<<TE(K_a, Num(2)), TE(K_b, Num(1))>>),
   TMap(<<TE(K_b, Num(1)), TE(K_ab, NULL), TE(K_a, TMap(<<TE(K_x, Num(1))>>)), TE(K_B, Num(4))>>),
   TMap(<<TE(K_B, Num(4)), TE(K_a, TMap(<<TE(K_x, Num(1))>>)), TE(K_ab, NULL), TE(K_b, Num(1))>>),
   TMap(<<TE(K_a, Num(3)), TE(K_9, Num(2)), TE(K_10, Num(1))>>),
   TMap(<<TE(K_10, Num(1)), TE(K_a, Num(3)), TE(K_9, Num(2))>>),
   TMap(<<TE(S_toString, Num(1)), TE(S_length, Num(2))>>),
   TList(<< >>), TList(<<Num(5)>>), TList(<<Num(5), TList(<<Num(6)>>), NULL>>),
   UNDEF, NULL, Num(1), Str(K_ab), Bool(TRUE), Fn(K_x)}
KeysofCases == {UtilCall("keysof", v, UNDEF) : v \in KeyedVals}
ItemsCases == {UtilCall("items", v, UNDEF) : v \in KeyedVals}

\* setprop(node, key, val) on a node of an earlier result.
MaxCalls == 2   \* the calls a caller makes on one heap
AgainKeys == {Str(K_a), Num(0), Num(1), Num(5), Num(-1)}
AgainVals == {UNDEF, Num(7)}

\* The record of a call: its arguments as literals.
CallOf(c, collect) ==
  [fam |-> c.fam, data |-> c.data, spec |-> c.spec, extra |-> c.extra, tag |-> c.tag,
   collect |-> collect]
NoCall == CallOf(DirCall(UNDEF, UNDEF, UNDEF, FALSE), FALSE)

\* The machine after the caller has evaluated its argument literals: data,
\* spec and extra, in this order; args holds their values.
Literals3(c) ==
  LET mD == Build(M0, c.data)
      mS == Build(mD, c.spec)
      mE == Build(mS, c.extra)
  IN CASE mD.thrown # NoThrow -> mD
       [] mS.thrown # NoThrow -> mS
       [] OTHER -> Ret(mE, <<mD.ret, mS.ret, mE.ret>>)

Init ==
  /\ pc = "idle"
  /\ op = "none"
  /\ call = NoCall
  /\ argv = << >>
  /\ calls = 0
  /\ log = << >>
  /\ heap = << >>
  /\ dataRef = UNDEF
  /\ specRef = UNDEF
  /\ errsRef = UNDEF
  /\ ret = UNDEF
  /\ thrown = NoThrow

\* The caller has evaluated its argument literals on machine m and calls
\* operation f with the values as.
Called(f, c, m, as) ==
  /\ pc' = "called"
  /\ op' = f
  /\ call' = c
  /\ argv' = <<f, as>>
  /\ calls' = calls + 1
  /\ log' = << >>
  /\ heap' = m.h
  /\ ret' = UNDEF
  /\ thrown' = m.thrown

\* out = transform(data, spec, extra), and for the family "modify"
\* out = transform(data, spec, extra, modify)
CallTransform ==
  /\ pc = "idle"
  /\ \E c \in TransformCases :
       \E mA \in {Literals3(c)} :
          /\ Called("transform", CallOf(c, FALSE), mA,
                    <<mA.ret[1], mA.ret[2], mA.ret[3]>>
                      \o (IF c.fam = "modify" THEN <<"record">> ELSE << >>))
          /\ dataRef' = mA.ret[1]
          /\ specRef' = mA.ret[2]
          /\ errsRef' = UNDEF

\* out = validate(data, spec, extra) and out = validate(data, spec, extra, [])
CallValidate ==
  /\ pc = "idle"
  /\ \E c \in ValidateCases, collect \in BOOLEAN :
       \E mA \in {Literals3(c)} :
       \E mC \in {IF collect THEN NewList(mA, << >>) ELSE Ret(mA, UNDEF)} :
          /\ Called("validate", CallOf(c, collect), mC,
                    <<mA.ret[1], mA.ret[2], mA.ret[3], mC.ret>>)
          /\ dataRef' = mA.ret[1]
          /\ specRef' = mA.ret[2]
          /\ errsRef' = mC.ret

\* out = clone(v)
CallClone ==
  /\ pc = "idle"
  /\ \E c \in CloneCases :
       \E mA \in {Build(M0, c.data)} :
          /\ Called("clone", CallOf(c, FALSE), mA, <<mA.ret>>)
          /\ dataRef' = mA.ret
          /\ specRef' = UNDEF
          /\ errsRef' = UNDEF

\* out = merge([v1, .., vn])
CallMerge ==
  /\ pc = "idle"
  /\ \E c \in MergeCases :
       \E mA \in {Build(M0, c.data)} :
          /\ Called("merge", CallOf(c, FALSE), mA, <<Obj(mA, mA.ret).es>>)
          /\ dataRef' = mA.ret
          /\ specRef' = UNDEF
          /\ errsRef' = UNDEF

\* out = walk(v, visitor)
CallWalk ==
  /\ pc = "idle"
  /\ \E c \in WalkCases :
       \E mA \in {Build(M0, c.data)} :
          /\ Called("walk", CallOf(c, FALSE), mA, <<mA.ret, c.tag, UNDEF, UNDEF, << >>>>)
          /\ dataRef' = mA.ret
          /\ specRef' = UNDEF
          /\ errsRef' = UNDEF

\* out = setprop(parent, key, val)
CallSetprop ==
  /\ pc = "idle"
  /\ \E c \in SetCases :
       \E mA \in {Build(M0, c.data)} :
          /\ Called("setprop", CallOf(c, FALSE), mA, <<mA.ret, c.tag.key, c.tag.val>>)
          /\ dataRef' = mA.ret
          /\ specRef' = UNDEF
          /\ errsRef' = UNDEF

\* out = getprop(val, key, alt)
CallGetprop ==
  /\ pc = "idle"
  /\ \E c \in GetCases :
       \E mA \in {Build(M0, c.data)} :
          /\ Called("getprop", CallOf(c, FALSE), mA, <<mA.ret, c.tag.key, c.tag.alt>>)
          /\ dataRef' = mA.ret
          /\ specRef' = UNDEF
          /\ errsRef' = UNDEF

\* out = getpath(path, store, current, state)
CallGetpath ==
  /\ pc = "idle"
  /\ \E c \in GetpathCases :
       \E mA \in {BuildEs(M0, <<c.tag.path, c.data, c.tag.current, c.tag.state>>,
                          1, << >>, FALSE)} :
          /\ Called("getpath4", CallOf(c, FALSE), mA, mA.ret)
          /\ dataRef' = mA.ret[2]
          /\ specRef' = UNDEF
          /\ errsRef' = UNDEF

\* out = keysof(val)
CallKeysof ==
  /\ pc = "idle"
  /\ \E c \in KeysofCases :
       \E mA \in {Build(M0, c.data)} :
          /\ Called("keysof", CallOf(c, FALSE), mA, <<mA.ret>>)
          /\ dataRef' = mA.ret
          /\ specRef' = UNDEF
          /\ errsRef' = UNDEF

\* out = items(val)
CallItems ==
  /\ pc = "idle"
  /\ \E c \in ItemsCases :
       \E mA \in {Build(M0, c.data)} :
          /\ Called("items", CallOf(c, FALSE), mA, <<mA.ret>>)
          /\ dataRef' = mA.ret
          /\ specRef' = UNDEF
          /\ errsRef' = UNDEF

\* The nodes of the tree of value v in heap h.
RECURSIVE NodesOf(_, _, _)
NodesOf(h, v, fuel) ==
  IF ~IsRef(v) \/ fuel = 0 THEN {}
  ELSE LET o == h[v.a]
           kids == IF o.k = "map" THEN {o.es[i].v : i \in 1..Len(o.es)}
                   ELSE IF o.k = "list" THEN {o.es[i] : i \in 1..Len(o.es)}
                   ELSE {}
       IN {v} \cup UNION {NodesOf(h, w, fuel - 1) : w \in kids}

\* setprop(node, key, val) on a node of the value the last call returned.
CallSetpropResult ==
  /\ pc = "done"
  /\ op \in {"clone", "setprop"}
  /\ thrown = NoThrow
  /\ calls < MaxCalls
  /\ \E node \in NodesOf(heap, ret, Fuel), key \in AgainKeys, val \in AgainVals :
       /\ pc' = "called"
       /\ op' = "setprop"
       /\ argv' = <<"setprop", <<node, key, val>>>>
  /\ calls' = calls + 1
  /\ log' = << >>
  /\ ret' = UNDEF
  /\ UNCHANGED <<call, heap, dataRef, specRef, errsRef, thrown>>

\* The called operation runs to its return or to the exception it raises;
\* a call that does neither stays running.
Execute ==
  /\ pc = "called"
  /\ \E r \in {Run(op, <<[M0 EXCEPT !.h = heap, !.thrown = thrown]>> \o argv[2])} :
       /\ pc' = IF r.thrown = Unending THEN "running" ELSE "done"
       /\ heap' = r.h
       /\ log' = r.log
       /\ ret' = r.ret
       /\ thrown' = r.thrown
  /\ UNCHANGED <<op, call, argv, calls, dataRef, specRef, errsRef>>

\* The caller drops the result; nothing of a call outlives it.
Return ==
  /\ pc = "done"
  /\ pc' = "idle"
  /\ op' = "none"
  /\ call' = NoCall
  /\ argv' = << >>
  /\ calls' = 0
  /\ log' = << >>
  /\ heap' = << >>
  /\ dataRef' = UNDEF
  /\ specRef' = UNDEF
  /\ errsRef' = UNDEF
  /\ ret' = UNDEF
  /\ thrown' = NoThrow

Next ==
  \/ CallTransform \/ CallValidate \/ CallClone \/ CallMerge \/ CallWalk
  \/ CallSetprop \/ CallGetprop \/ CallGetpath \/ CallKeysof \/ CallItems
  \/ CallSetpropResult
  \/ Execute \/ Return

Spec == Init /\ [][Next]_vars

\* A called operation is run: JavaScript executes the call it has started.
\* The only step Next allows in a state with pc = "called" is Execute, which
\* is enabled there and changes pc, so a step Executed is a step Execute and
\* the fairness stated is weak fairness of Execute.
Executed == pc = "called" /\ pc' \in {"done", "running"}
LiveSpec == Spec /\ WF_pc(Executed)

---------------------------------------------------------------------------
(* What a caller observes of a finished call.                              *)

Done(o, fam) == pc = "done" /\ op = o /\ call.fam = fam
Returned == thrown = NoThrow

\* The returned value as a tree.
Out == Dump(heap, ret, Fuel)

\* The messages in the caller's collectErrs list.
Errs ==
  IF errsRef = UNDEF THEN << >>
  ELSE [i \in 1..Len(heap[errsRef.a].es) |-> heap[errsRef.a].es[i].s]

\* s.includes(t) for strings.
Contains(s, t) == \E i \in 1..(Len(s) - Len(t) + 1) : SubSeq(s, i, i + Len(t) - 1) = t

---------------------------------------------------------------------------
(* transform: path references.                                             *)

\* A key that is not empty and holds none of '.', '$' and '`'.
PlainKey(k) == k # S_MT /\ \A i \in 1..Len(k) : k[i] \notin {S_DT[1], S_DS[1], S_BT[1]}

---------------------------------------------------------------------------
(* transform: $EACH.                                                       *)

\* {list: [{v: ns[1]}, .., {v: ns[n]}]}
EachExpected(ns) ==
  TMap(<<TE(K_list, TList([i \in 1..Len(ns) |-> TMap(<<TE(K_v, Num(ns[i]))>>)]))>>)

\* C2, as amended: with data {items: [{n: ..}, ..]} and spec
\* {list: ['`$EACH`', 'items', {v: '`.n`'}]}, the child template referring
\* to its source element by a relative path, the result is {list: [{v: ..}, ..]}
\* with one injected clone of the template per source element, in source
\* order, each holding the n of its own source element.
C2_EachRelative ==
  (Done("transform", "each") /\ call.tag.rel)
    => (Returned /\ DeepEqual(Out, EachExpected(call.tag.ns)))

\* The call with the items [{n: 1}, {n: 2}] and the relative reference has
\* returned {list: [{v: 1}, {v: 2}]}.
C2_Witness ==
  /\ Done("transform", "each")
  /\ call.tag.rel
  /\ call.tag.ns = <<1, 2>>
  /\ Returned
  /\ Out = EachExpected(<<1, 2>>)

\* C2 as stated: with the child template {v: '`n`'} the result is
\* {list: [{v: 1}, {v: 2}]}, each clone resolved against its own element.
C2_EachAbsolute ==
  (Done("transform", "each") /\ ~call.tag.rel)
    => (Returned /\ DeepEqual(Out, EachExpected(call.tag.ns)))

---------------------------------------------------------------------------
(* validate: what a call recorded.                                         *)

\* The message of the aggregate failure a call raised.
Message == IF thrown = "Error" /\ ret.t = "str" THEN ret.s ELSE S_MT

\* The messages validate records for the arguments of the call: the list a
\* caller gets back when it passes an empty collectErrs list.
Recorded ==
  LET mA == Literals3(call)
      mC == NewList(mA, << >>)
      r == validate(mC, mA.ret[1], mA.ret[2], mA.ret[3], mC.ret)
  IN [i \in 1..Len(r.h[mC.ret.a].es) |-> r.h[mC.ret.a].es[i].s]

\* The path of the validated position: 'p' or '<root>'.
PathText(nested) == IF nested THEN K_p ELSE T_root

\* typeof of a literal value.
KindOf(v) ==
  CASE v.t = "num" -> T_number
    [] v.t = "str" -> T_string
    [] v.t = "bool" -> T_boolean
    [] v.t = "undef" -> T_undefined
    [] OTHER -> T_object

---------------------------------------------------------------------------
(* validate: type directives.                                              *)

\* C3: validate({a: v}, {a: '`$NUMBER`'}) returns the data without an error
\* when v is a number; otherwise it records exactly one error, which names
\* the path a, and without a collectErrs list raises the aggregate failure
\* with that message.
C3_NumberSlot ==
  Done("validate", "number") =>
    IF call.tag.val.t = "num"
    THEN Returned /\ Errs = << >> /\ DeepEqual(Out, call.data)
    ELSE IF call.collect
      THEN Returned /\ Len(Errs) = 1 /\ Contains(Errs[1], T_at \o K_a)
      ELSE /\ thrown = "Error"
           /\ Contains(Message, T_at \o K_a)
           /\ ~Contains(Message, T_NL)

---------------------------------------------------------------------------
(* validate: closed and open shape maps.                                   *)

\* 'Unexpected keys at <path>: k1, k2' for the keys with the numbers in S.
UnexpectedMsg(nested, S) ==
  T_UnexpectedKeys \o PathText(nested) \o T_colon
    \o JoinWith([i \in 1..Cardinality(S) |-> KeyOf(Ascending(S)[i])], T_comma)

\* The data keys that the shape does not list.
ExtraKeys == call.tag.dks \ call.tag.sks

OutMap == IF call.tag.nested THEN Out.es[1].v ELSE Out
OutKeys == {OutMap.es[i].k : i \in 1..Len(OutMap.es)}
OutVal(k) == OutMap.es[CHOOSE i \in 1..Len(OutMap.es) : OutMap.es[i].k = k].v

\* C8: a shape map that is empty or carries `$OPEN`: true is open: validate
\* records no error for data keys the shape does not list, every data key
\* is in the output with the data's value, and the output has no `$OPEN` key.
C8_OpenShape ==
  Done("validate", "open") =>
    /\ Returned
    /\ Errs = << >>
    /\ Out.t = "map"
    /\ call.tag.nested => (Len(Out.es) = 1 /\ Out.es[1].k = K_p /\ Out.es[1].v.t = "map")
    /\ \A i \in call.tag.dks : KeyOf(i) \in OutKeys /\ OutVal(KeyOf(i)) = Num(1)
    /\ S_DOPEN \notin OutKeys

---------------------------------------------------------------------------
(* validate: $ONE.                                                         *)

\* validate(d, shape, undefined, []) returns with an empty list.
Validates(d, shape) ==
  LET mA == Literals3(DirCall(d, shape, UNDEF, FALSE))
      mC == NewList(mA, << >>)
      r == validate(mC, mA.ret[1], mA.ret[2], mA.ret[3], mC.ret)
  IN r.thrown = NoThrow /\ r.h[mC.ret.a].es = << >>

\* C5: validate(d, ['`$ONE`', alt, ..]) is first-match-wins: when at least
\* one alternative validates the data with zero errors, the call records no
\* error, does not raise, and returns the data.
C5_OneMatches ==
  (/\ Done("validate", "one")
   /\ \E i \in 1..Len(call.tag.alts) : Validates(call.tag.d, call.tag.alts[i]))
    => (Returned /\ Errs = << >> /\ DeepEqual(Out, call.data))

---------------------------------------------------------------------------
(* validate: raising and collecting.                                       *)

\* C6: validate raises exactly when errors were recorded and the caller gave
\* no collectErrs list: the failure then carries all recorded messages
\* joined by newline; with a collectErrs list it never raises and the list
\* holds every recorded message.
C6_RaiseOrCollect ==
  (pc = "done" /\ op = "validate") =>
    IF call.collect
    THEN Returned /\ Errs = Recorded
    ELSE IF Recorded = << >>
      THEN Returned
      ELSE thrown = "Error" /\ Message = T_InvalidData \o JoinWith(Recorded, T_NL)

---------------------------------------------------------------------------
(* validate: scalar literals.                                              *)

\* C7: a scalar literal lit in the shape {a: lit} is a typed default: data
\* without a keeps the default, a data value of the literal's type replaces
\* it, and a data value of another type records exactly one error for the
\* path a.
C7_TypedDefault ==
  (Done("validate", "default") /\ call.collect) =>
    CASE call.tag.val = UNDEF ->
           Returned /\ Errs = << >> /\ Out = TMap(<<TE(K_a, call.tag.lit)>>)
      [] call.tag.val # UNDEF /\ KindOf(call.tag.val) = KindOf(call.tag.lit) ->
           Returned /\ Errs = << >> /\ Out = TMap(<<TE(K_a, call.tag.val)>>)
      [] OTHER ->
           Returned /\ Len(Errs) = 1 /\ Contains(Errs[1], T_at \o K_a)

---------------------------------------------------------------------------
(* transform and validate: the caller's arguments.                         *)

\* C9: after a call of transform or validate, returned or raised, the
\* caller's data tree and spec tree are deep-equal to the literals the
\* caller passed.
C9_InputsUnchanged ==
  (pc = "done" /\ op \in {"transform", "validate"}) =>
    /\ DeepEqual(Dump(heap, dataRef, Fuel), call.data)
    /\ DeepEqual(Dump(heap, specRef, Fuel), call.spec)

\* transform with $PACK over a map source has returned: the `$META` entries
\* it writes into the source values are in the heap, and not in the
\* caller's data.
C9_Witness ==
  /\ Done("transform", "dir")
  /\ call.data = DataM
  /\ Returned
  /\ Out.t = "map" /\ Len(Out.es) = 1 /\ Out.es[1].k = K_out
  /\ \E a \in 1..Len(heap) :
       /\ heap[a].k = "map"
       /\ \E i \in 1..Len(heap[a].es) : heap[a].es[i].k = S_DMETA
  /\ Dump(heap, dataRef, Fuel) = DataM

\* C10: transform returns a value for every data and every spec, malformed
\* specs included: it never raises.
C10_TransformNeverRaises ==
  (pc = "done" /\ op = "transform") => Returned

---------------------------------------------------------------------------
(* clone.                                                                  *)

\* C11: clone(v) returns, for every value v, a value deep-equal to v (with
\* the same functions, and absent for absent), and a later setprop on a node
\* of the copy leaves v deep-equal to what the caller passed.
C11_CloneFaithful ==
  /\ (pc = "done" /\ op = "clone") =>
       /\ Returned
       /\ DeepEqual(Dump(heap, ret, Fuel), call.data)
  /\ (pc = "done" /\ op = "setprop" /\ call.fam = "clone") =>
       DeepEqual(Dump(heap, dataRef, Fuel), call.data)

---------------------------------------------------------------------------
(* merge.                                                                  *)

\* The leaves below the root of a tree, each with its path: scalars and
\* empty nodes.
RECURSIVE LeavesAt(_, _)
LeavesUnder(tree, path) ==
  IF tree.t = "map"
  THEN UNION {LeavesAt(tree.es[i].v, Append(path, tree.es[i].k)) : i \in 1..Len(tree.es)}
  ELSE IF tree.t = "list"
    THEN UNION {LeavesAt(tree.es[i], Append(path, NatToStr(i - 1))) : i \in 1..Len(tree.es)}
  ELSE {}
LeavesAt(tree, path) ==
  IF tree.t \in {"map", "list"} /\ tree.es # << >> THEN LeavesUnder(tree, path)
  ELSE {<<path, tree>>}

\* The subtree of a tree at a path, absent when the path leaves the tree.
RECURSIVE TreeAt(_, _)
TreeAt(tree, path) ==
  IF path = << >> THEN tree
  ELSE IF tree.t = "map"
    THEN LET at == {i \in 1..Len(tree.es) : tree.es[i].k = path[1]}
         IN IF at = {} THEN UNDEF
            ELSE TreeAt(tree.es[CHOOSE i \in at : TRUE].v, Tail(path))
  ELSE IF tree.t = "list"
    THEN LET at == {i \in 1..Len(tree.es) : NatToStr(i - 1) = path[1]}
         IN IF at = {} THEN UNDEF
            ELSE TreeAt(tree.es[CHOOSE i \in at : TRUE], Tail(path))
  ELSE UNDEF

IsPrefix(p, q) == Len(p) <= Len(q) /\ SubSeq(q, 1, Len(p)) = p

\* The call merge([v1, v2]) of two maps has returned.
MergedMaps ==
  /\ pc = "done" /\ op = "merge" /\ Len(call.data.es) = 2
  /\ call.data.es[1].t = "map" /\ call.data.es[2].t = "map"

\* C12: merge([m1, m2]) of two maps returns the first element itself, which
\* then holds every leaf of m2 at its path and every leaf of m1 whose path
\* neither extends nor is extended by the path of a leaf of m2.
C12_MergePrecedence ==
  MergedMaps =>
    LET m1 == call.data.es[1]
        m2 == call.data.es[2]
        res == Dump(heap, ret, Fuel)
    IN /\ Returned
       /\ ret = argv[2][1][1]
       /\ \A l \in LeavesUnder(m2, << >>) : TreeAt(res, l[1]) = l[2]
       /\ \A l \in LeavesUnder(m1, << >>) :
            (\A k \in LeavesUnder(m2, << >>) : ~IsPrefix(k[1], l[1]) /\ ~IsPrefix(l[1], k[1]))
              => TreeAt(res, l[1]) = l[2]

\* The nodes of a tree, each as its path and its kind.
RECURSIVE NodePaths(_, _)
NodePaths(tree, path) ==
  IF tree.t = "map"
  THEN {<<path, "map">>} \cup
       UNION {NodePaths(tree.es[i].v, Append(path, tree.es[i].k)) : i \in 1..Len(tree.es)}
  ELSE IF tree.t = "list"
    THEN {<<path, "list">>} \cup
         UNION {NodePaths(tree.es[i], Append(path, NatToStr(i - 1))) : i \in 1..Len(tree.es)}
  ELSE {}

\* The paths at which tree a holds a node of one kind and tree b a node of
\* the other kind.
Clashes(a, b) ==
  {p[1] : p \in {p \in NodePaths(a, << >>) :
                  \E q \in NodePaths(b, << >>) : q[1] = p[1] /\ q[2] # p[2]}}

\* C13: after merge([v1, v2]), at every path where v1 holds a list and v2 a
\* map, or v1 a map and v2 a list, the result holds the node of v2, whole and
\* alone.
C13_KindsNeverMerge ==
  (pc = "done" /\ op = "merge" /\ Len(call.data.es) = 2) =>
    \A p \in Clashes(call.data.es[1], call.data.es[2]) :
       DeepEqual(TreeAt(Dump(heap, ret, Fuel), p), TreeAt(call.data.es[2], p))

---------------------------------------------------------------------------
(* walk.                                                                   *)

\* The paths of the root, the nodes and the leaves of a tree.
RECURSIVE PathsOf(_, _)
PathsOf(tree, path) ==
  {path} \cup
    (IF tree.t = "map"
     THEN UNION {PathsOf(tree.es[i].v, Append(path, tree.es[i].k)) : i \in 1..Len(tree.es)}
     ELSE IF tree.t = "list"
       THEN UNION {PathsOf(tree.es[i], Append(path, NatToStr(i - 1))) : i \in 1..Len(tree.es)}
     ELSE {})

\* A tree with every number in it replaced by its successor: what the
\* visitor "bump" has made of a tree once it has been called on all of it.
RECURSIVE BumpAll(_)
BumpAll(tree) ==
  IF tree.t = "map"
  THEN TMap([i \in 1..Len(tree.es) |-> TE(tree.es[i].k, BumpAll(tree.es[i].v))])
  ELSE IF tree.t = "list"
    THEN TList([i \in 1..Len(tree.es) |-> BumpAll(tree.es[i])])
  ELSE IF tree.t = "num" THEN Num(tree.n + 1)
  ELSE tree

\* The value a visitor is to be called with at path p of the walked tree: the
\* subtree there, with the values its children's calls returned in place.
SeenAt(tree, p, visitor) ==
  LET sub == TreeAt(tree, p)
  IN IF visitor = "bump" /\ sub.t \in {"map", "list"} THEN BumpAll(sub) ELSE sub

Walked == pc = "done" /\ op = "walk"

\* C14: walk(v, visitor) calls the visitor once for the root, every node and
\* every leaf of v; the call of a child comes before the call of its parent,
\* the root's call is the last and has no key and no parent; a call gets the
\* path of its value, the last key of the path, the parent node, and the
\* value with the results of its children's calls already in place; the
\* value returned is the root's result.
C14_WalkPostOrder ==
  Walked =>
    LET t == call.data
        n == Len(log)
    IN /\ Returned
       /\ n = Cardinality(PathsOf(t, << >>))
       /\ {log[i].path : i \in 1..n} = PathsOf(t, << >>)
       /\ \A i, j \in 1..n :
            (log[j].path # << >> /\ log[i].path = SubSeq(log[j].path, 1, Len(log[j].path) - 1))
              => j < i
       /\ log[n].path = << >> /\ log[n].key = UNDEF /\ log[n].parent = UNDEF
       /\ \A i \in 1..n :
            LET e == log[i]
            IN /\ DeepEqual(Dump(e.h, e.val, Fuel), SeenAt(t, e.path, call.tag))
               /\ e.path # << >> =>
                    /\ e.key = Str(e.path[Len(e.path)])
                    /\ IsRef(e.parent)
                    /\ TreeAt(Dump(e.h, e.parent, Fuel), <<e.path[Len(e.path)]>>)
                         = Dump(e.h, e.val, Fuel)
       /\ DeepEqual(Dump(heap, ret, Fuel), IF call.tag = "bump" THEN BumpAll(t) ELSE t)

\* walk({a:{b:1}}, visitor) has returned after the calls (b, 1), (a, {b:1})
\* and (absent, {a:{b:1}}), in this order.
C14_Witness ==
  /\ Walked /\ Returned /\ call.tag = "record"
  /\ call.data = TMap(<<TE(K_a, TMap(<<TE(K_b, Num(1))>>))>>)
  /\ Len(log) = 3
  /\ log[1].key = Str(K_b) /\ log[1].val = Num(1) /\ log[1].path = <<K_a, K_b>>
  /\ log[2].key = Str(K_a) /\ log[2].path = <<K_a>>
  /\ Dump(log[2].h, log[2].val, Fuel) = TMap(<<TE(K_b, Num(1))>>)
  /\ log[3].key = UNDEF /\ log[3].path = << >>
  /\ Dump(log[3].h, log[3].val, Fuel) = call.data

---------------------------------------------------------------------------
(* setprop and getprop.                                                    *)

\* A first call setprop(parent, key, val) on the literal call.data has returned.
SetDone == pc = "done" /\ op = "setprop" /\ calls = 1
SetKey == argv[2][2]
SetVal == argv[2][3]
HeapNow == [M0 EXCEPT !.h = heap]

\* C15: for a map m, a key k that is a non-empty string or a number, and a
\* value x: setprop(m, k, x) returns m; if x is not absent then
\* getprop(m, k) is x afterwards, and the entry is stored under the string
\* form of k; if x is absent then haskey(m, k) is false afterwards; every
\* other key of m keeps its value, and no other key appears.
C15_SetGetRoundTrip ==
  (SetDone /\ call.data.t = "map" /\ iskey(SetKey)) =>
    LET ks == KeyStr(HeapNow, SetKey)
        before == call.data.es
        after == Obj(HeapNow, ret).es
    IN /\ Returned /\ ret = argv[2][1]
       /\ SetVal # UNDEF =>
            /\ getprop(HeapNow, ret, SetKey) = SetVal
            /\ getprop(HeapNow, ret, Str(ks)) = SetVal
            /\ \E i \in 1..Len(after) : after[i] = [k |-> ks, v |-> SetVal]
       /\ SetVal = UNDEF =>
            /\ ~haskey(HeapNow, ret, SetKey)
            /\ \A i \in 1..Len(after) : after[i].k # ks
       /\ \A i \in 1..Len(before) :
            before[i].k # ks =>
              \E j \in 1..Len(after) : after[j] = [k |-> before[i].k, v |-> before[i].v]
       /\ \A j \in 1..Len(after) :
            after[j].k # ks => \E i \in 1..Len(before) : before[i].k = after[j].k
       /\ \A i, j \in 1..Len(after) : after[i].k = after[j].k => i = j

\* setprop({x:17}, 0, 0) has returned {x:17, '0':0}.
C15_Witness ==
  /\ SetDone /\ Returned
  /\ call.data = TMap(<<TE(K_x, Num(17))>>) /\ SetKey = Num(0) /\ SetVal = Num(0)
  /\ Dump(heap, ret, Fuel) = TMap(<<TE(K_x, Num(17)), TE(<<48>>, Num(0))>>)

\* setprop({a:1, b:2}, 'a', absent) has returned {b:2}.
C15_Removed ==
  /\ SetDone /\ Returned
  /\ call.data = TMap(<<TE(K_a, Num(1)), TE(K_b, Num(2))>>)
  /\ SetKey = Str(K_a) /\ SetVal = UNDEF
  /\ Dump(heap, ret, Fuel) = TMap(<<TE(K_b, Num(2))>>)

\* The number a list key stands for: the key itself if it is a number, +key
\* if it is a string.
ListKey(key) ==
  IF key.t = "num" THEN [nan |-> FALSE, n |-> key.n] ELSE StrToNum(key.s)

\* C16: a call setprop(l, key, x) on a list l, the first or a later one on
\* the same heap, returns l and changes nothing but l.  With i the number
\* of a key-eligible, numeric key: a value x at i >= length is appended, at
\* i < 0 prepended, at an index in range it replaces that element only;
\* absent at an index in range removes that element and moves the later
\* ones down by one; absent at an index out of range, and every key that is
\* not key-eligible or not numeric, leave the list as it is.  A list without
\* absent elements stays without them.
C16_ListSetprop ==
  [][(pc = "called" /\ op = "setprop" /\ islist(HeapNow, argv[2][1])) =>
       LET before == heap[argv[2][1].a].es
           after == heap'[argv[2][1].a].es
           n == Len(before)
           x == argv[2][3]
           i == ListKey(argv[2][2]).n
       IN /\ ret' = argv[2][1] /\ thrown' = NoThrow
          /\ DOMAIN heap' = DOMAIN heap
          /\ \A a \in DOMAIN heap : a # argv[2][1].a => heap'[a] = heap[a]
          /\ heap'[argv[2][1].a].k = "list"
          /\ (\A j \in 1..n : before[j] # UNDEF)
               => \A j \in 1..Len(after) : after[j] # UNDEF
          /\ IF ~iskey(argv[2][2]) \/ ListKey(argv[2][2]).nan THEN after = before
             ELSE IF x = UNDEF
               THEN IF 0 <= i /\ i < n
                    THEN /\ Len(after) = n - 1
                         /\ \A j \in 1..(n - 1) :
                              after[j] = IF j <= i THEN before[j] ELSE before[j + 1]
                    ELSE after = before
             ELSE IF i >= n THEN after = Append(before, x)
             ELSE IF i < 0 THEN after = <<x>> \o before
             ELSE /\ Len(after) = n
                  /\ \A j \in 1..n : after[j] = IF j = i + 1 THEN x ELSE before[j]
    ]_vars

\* setprop([1,2,3], 5, 7) has returned [1,2,3,7], and a second call
\* setprop of -1 and 7 on the result has returned [7,1,2,3,7].
C16_Witness ==
  /\ pc = "done" /\ op = "setprop" /\ calls = 2 /\ Returned
  /\ call.fam = "setprop"
  /\ call.data = TList(<<Num(1), Num(2), Num(3)>>)
  /\ call.tag = [key |-> Num(5), val |-> Num(7)]
  /\ argv[2][2] = Num(-1) /\ argv[2][3] = Num(7)
  /\ Dump(heap, ret, Fuel) = TList(<<Num(7), Num(1), Num(2), Num(3), Num(7)>>)

\* setprop([1,2,3], '1', absent) has returned [1,3].
C16_Shifted ==
  /\ SetDone /\ Returned
  /\ call.data = TList(<<Num(1), Num(2), Num(3)>>)
  /\ SetKey = Str(<<49>>) /\ SetVal = UNDEF
  /\ Dump(heap, ret, Fuel) = TList(<<Num(1), Num(3)>>)

\* The value the literal t stores under the key k, absent if none: the entry
\* of a map whose name is the string form of k, the element of a list at
\* the index k, a number or the string form of one.
StoredAt(t, k) ==
  IF k = UNDEF THEN UNDEF
  ELSE IF t.t = "map"
    THEN LET ks == KeyStr(M0, k)
         IN IF \E i \in 1..Len(t.es) : t.es[i].k = ks
            THEN t.es[CHOOSE i \in 1..Len(t.es) : t.es[i].k = ks].v
            ELSE UNDEF
  ELSE IF t.t = "list"
    THEN LET i == IF k.t = "num" THEN k.n
                  ELSE IF k.t = "str" /\ IsIndexStr(k.s) THEN DigitsVal(k.s, 0)
                  ELSE 0 - 1
         IN IF 0 <= i /\ i < Len(t.es) THEN t.es[i + 1] ELSE UNDEF
  ELSE UNDEF

GetDone == pc = "done" /\ op = "getprop"

\* C17: getprop(val, key, alt) never throws; it returns the value stored
\* under key when val is a map with that key (a number matched by its string
\* form) or a list with an element at that index, and alt in every other
\* case: val absent or a scalar, key absent, key not in the map, index out
\* of range or not an integer.
C17_GetpropTolerant ==
  GetDone =>
    /\ Returned
    /\ Dump(heap, ret, Fuel) =
         IF StoredAt(call.data, argv[2][2]) # UNDEF
         THEN StoredAt(call.data, argv[2][2]) ELSE argv[2][3]

\* getprop([1,2], 'length', 9) has returned 2.
C17_Length ==
  /\ GetDone /\ Returned
  /\ call.data = TList(<<Num(1), Num(2)>>)
  /\ argv[2][2] = Str(S_length) /\ argv[2][3] = Num(9)
  /\ ret = Num(2)

\* getprop({x:17}, 'z', 9) has returned 9.
C17_Alt ==
  /\ GetDone /\ Returned
  /\ call.data = TMap(<<TE(K_x, Num(17))>>)
  /\ argv[2][2] = Str(K_z) /\ argv[2][3] = Num(9)
  /\ ret = Num(9)

---------------------------------------------------------------------------
(* getpath.                                                                *)

PathDone == pc = "done" /\ op = "getpath4"

\* The segments of a path literal: those of a key list, or of a string split
\* at its dots.
PartsOf(p) ==
  IF p.t = "list" THEN p.es
  ELSE [i \in 1..Len(Split(p.s)) |-> Str(Split(p.s)[i])]

IsPath(p) == p.t \in {"list", "str"}
EmptyPath(p) == PartsOf(p) = << >> \/ PartsOf(p) = <<Str(S_MT)>>

\* The descent from the literal t along parts[i..]: absent at the first
\* segment that is missing.
RECURSIVE Down(_, _, _)
Down(t, parts, i) ==
  IF t = UNDEF \/ i > Len(parts) THEN t
  ELSE Down(StoredAt(t, parts[i]), parts, i + 1)

\* The base a state literal names, absent if there is no state.
BaseOf(state) == StoredAt(state, Str(S_base))

\* C18: for a path that is not empty, getpath(path, store, current, state)
\* returns: if the first segment is the empty string, the descent from
\* current along the remaining segments; otherwise the descent along the
\* remaining segments from the first segment's value under store or, only
\* if there is none, under store[base].  A descent is absent as soon as a
\* segment is missing.  The path counts by its segments, as a dotted string
\* or as a key list.
C18_PathResolution ==
  (PathDone /\ IsPath(call.tag.path) /\ ~EmptyPath(call.tag.path)) =>
    LET parts == PartsOf(call.tag.path)
        store == call.data
        direct == StoredAt(store, parts[1])
        wrapped == StoredAt(StoredAt(store, BaseOf(call.tag.state)), parts[1])
    IN /\ Returned
       /\ Dump(heap, ret, Fuel) =
            IF parts[1] = Str(S_MT) THEN Down(call.tag.current, parts, 2)
            ELSE Down(IF direct # UNDEF THEN direct ELSE wrapped, parts, 2)

\* getpath('q', {p:{a:{b:2},q:3}}, absent, {base:'p'}) has returned 3, found
\* under the base.
C18_UnderBase ==
  /\ PathDone /\ Returned
  /\ call.tag.path = Str(K_q) /\ call.data = TMap(<<TE(K_p, Wrapped)>>)
  /\ call.tag.state = TMap(<<TE(S_base, Str(K_p))>>)
  /\ ret = Num(3)

\* C19: for the empty string, the key list [''] and the empty key list,
\* getpath returns store[base] if the state names a base and the store has
\* a value there, and the store otherwise.
C19_EmptyPath ==
  (PathDone /\ IsPath(call.tag.path) /\ EmptyPath(call.tag.path)) =>
    LET wrapped == StoredAt(call.data, BaseOf(call.tag.state))
    IN /\ Returned
       /\ Dump(heap, ret, Fuel) = IF wrapped # UNDEF THEN wrapped ELSE call.data

\* getpath('', {p:{a:{b:2},q:3}}, absent, {base:'p'}) has returned
\* {a:{b:2},q:3}.
C19_Wrapped ==
  /\ PathDone /\ Returned
  /\ call.tag.path = Str(S_MT) /\ call.data = TMap(<<TE(K_p, Wrapped)>>)
  /\ call.tag.state = TMap(<<TE(S_base, Str(K_p))>>)
  /\ Dump(heap, ret, Fuel) = Wrapped

---------------------------------------------------------------------------
(* keysof and items.                                                       *)

\* ks lists the keys of the literal t: of a map every name once, in
\* ascending order of their characters' codes; of a list the string forms
\* of 0..length-1 in order; of any other value nothing.
KeysOfLiteral(t, ks) ==
  IF t.t = "map"
  THEN /\ Len(ks) = Len(t.es)
       /\ {ks[i] : i \in 1..Len(ks)} = {t.es[i].k : i \in 1..Len(t.es)}
       /\ \A i, j \in 1..Len(ks) : i < j => StrLess(ks[i], ks[j])
  ELSE IF t.t = "list"
    THEN ks = [i \in 1..Len(t.es) |-> NatToStr(i - 1)]
  ELSE ks = << >>

C20_Items ==
  /\ pc = "done" /\ op = "items" /\ Returned
  /\ call.data = TMap(<<TE(K_b, Num(1)), TE(K_a, Num(2))>>)
  /\ Dump(heap, ret, Fuel) =
       TList(<<TList(<<Str(K_a), Num(2)>>), TList(<<Str(K_b), Num(1)>>)>>)

---------------------------------------------------------------------------
(* transform: $MERGE.                                                      *)

\* The spec map that held the `$MERGE` key, in the output.
Holder == IF call.tag.nested THEN getprop(HeapNow, ret, Str(K_p)) ELSE ret

\* The same map in the clone transform makes of the spec before it injects.
SpecClone == clone(Literals3(call), Literals3(call).ret[2])
HolderBefore ==
  IF call.tag.nested THEN getprop(SpecClone, SpecClone.ret, Str(K_p)) ELSE SpecClone.ret

\* The sources of the call in the order of the `$MERGE` argument, and after
\* them the spec map's own entries with their references resolved.
MergeLayers ==
  LET x == TreeAt(call.tag.b, <<K_x>>)
      own == IF call.tag.sibs = <<TE(K_q, Tick(K_b \o S_DT \o K_x))>>
             THEN (IF x = UNDEF THEN << >> ELSE <<TE(K_q, x)>>)
             ELSE call.tag.sibs
  IN (IF call.tag.form = "list2" THEN <<call.tag.a, call.tag.b>> ELSE <<call.tag.a>>)
       \o <<TMap(own)>>

\* Leaf l of layer i is hidden by a later layer: one of its leaves lies on,
\* above or below the path of l.
Hidden(layers, i, l) ==
  \E j \in (i + 1)..Len(layers) : \E k \in LeavesUnder(layers[j], << >>) :
     IsPrefix(k[1], l[1]) \/ IsPrefix(l[1], k[1])

\* C21: after transform of a spec map with a `$MERGE` key whose argument is
\* one source or a list of sources, the map is the node the spec map was,
\* has no `$MERGE` key, and holds every leaf of its own entries, every leaf
\* of a source that no later source and no own entry hides, and no other
\* leaf.
C21_MergeDirective ==
  Done("transform", "mergedir") =>
    LET res == Dump(heap, Holder, Fuel)
        layers == MergeLayers
    IN /\ Returned
       /\ Holder = HolderBefore
       /\ res.t = "map"
       /\ \A i \in 1..Len(res.es) : res.es[i].k # R_MERGE.s
       /\ \A i \in 1..Len(layers) : \A l \in LeavesUnder(layers[i], << >>) :
            ~Hidden(layers, i, l) => TreeAt(res, l[1]) = l[2]
       /\ \A l \in LeavesUnder(res, << >>) :
            \E i \in 1..Len(layers) : l \in LeavesUnder(layers[i], << >>)

\* transform({a: {x:2, y:3}, b: {y: {z:2, v:2}}},
\*           {p: {'`$MERGE`': ['`a`', '`b`'], y: {z: 9}}})
\* has returned {p: {x:2, y: {z:9, v:2}}}.
C21_Layered ==
  /\ Done("transform", "mergedir") /\ Returned
  /\ call.tag.nested /\ call.tag.form = "list2"
  /\ call.tag.a = TMap(<<TE(K_x, Num(2)), TE(K_y, Num(3))>>)
  /\ call.tag.b = TMap(<<TE(K_y, TMap(<<TE(K_z, Num(2)), TE(K_v, Num(2))>>))>>)
  /\ call.tag.sibs = <<TE(K_y, TMap(<<TE(K_z, Num(9))>>))>>
  /\ DeepEqual(Out, TMap(<<TE(K_p, TMap(<<TE(K_x, Num(2)),
                     TE(K_y, TMap(<<TE(K_z, Num(9)), TE(K_v, Num(2))>>))>>))>>))

\* transform({a: {y: [7]}, b: {y: {z: 1}}}, {'`$MERGE`': ['`a`', '`b`']}) has
\* returned {y: [7]}.
C21_Clash ==
  /\ Done("transform", "mergedir") /\ Returned
  /\ ~call.tag.nested /\ call.tag.form = "list2" /\ call.tag.sibs = << >>
  /\ call.tag.a = TMap(<<TE(K_y, TList(<<Num(7)>>))>>)
  /\ call.tag.b = TMap(<<TE(K_y, TMap(<<TE(K_z, Num(1))>>))>>)
  /\ Out = TMap(<<TE(K_y, TList(<<Num(7)>>))>>)

---------------------------------------------------------------------------
(* transform: $DELETE.                                                     *)

\* The value a slot of the spec is injected to, with data {a: 5}.
Injected(v) == IF v = Tick(K_a) THEN Num(5) ELSE v

\* The entries of the call's spec node that are not `$DELETE`, injected.
Kept ==
  LET vs == call.tag.vs
      keep == SelectSeq([i \in 1..Len(vs) |-> i], LAMBDA i : vs[i] # R_DELETE)
  IN IF call.tag.list THEN TList([n \in 1..Len(keep) |-> Injected(vs[keep[n]])])
     ELSE TMap([n \in 1..Len(keep) |-> TE(SlotKeys[keep[n]], Injected(vs[keep[n]]))])

\* C22: in the output of transform the entries whose spec value is
\* `$DELETE` are absent and every other entry of the same map or list is
\* present with its injected value; the elements of a list keep their
\* order, and each `$DELETE` removes one element only.
C22_DeleteOwnSlot ==
  Done("transform", "delete") =>
    (Returned /\ DeepEqual(Out, Under(call.tag.nested, Kept)))

\* transform({a: 5}, {x: 1, y: '`$DELETE`', z: '`a`'}) has returned {x: 1, z: 5}.
C22_MapSlot ==
  /\ Done("transform", "delete") /\ Returned
  /\ ~call.tag.list /\ ~call.tag.nested
  /\ call.tag.vs = <<Num(1), R_DELETE, Tick(K_a)>>
  /\ Out = TMap(<<TE(K_x, Num(1)), TE(K_z, Num(5))>>)

\* transform({a: 5}, ['`$DELETE`', 'k']) has returned the empty list.
C22_ListSlot ==
  /\ Done("transform", "delete") /\ Returned
  /\ call.tag.list /\ ~call.tag.nested
  /\ call.tag.vs = <<R_DELETE, Str(K_k)>>
  /\ Out = TList(<< >>)

---------------------------------------------------------------------------
(* validate: $CHILD.                                                       *)

\* The output at the validated position.
OutAt == IF call.tag.nested THEN TreeAt(Out, <<K_p>>) ELSE Out

\* The key of the i-th child of the call's data node, and its path text.
ChildKey(i) == IF call.tag.list THEN NatToStr(i - 1) ELSE KeyOf(i)
ChildPath(i) == IF call.tag.nested THEN K_p \o S_DT \o ChildKey(i) ELSE ChildKey(i)

\* The children that are not numbers.
Mismatches == {i \in 1..Len(call.tag.vs) : call.tag.vs[i].t # "num"}

\* C23: validate with the shape [`$CHILD`, `$NUMBER`] on a data list, or
\* {`$CHILD`: `$NUMBER`} on a data map, of n children: every child that is
\* not a number records one error naming its path, and nothing else does;
\* the output node has the n keys of the data, each number child with its
\* data value; absent data gives an empty list or map.
C23_ChildEvery ==
  (Done("validate", "child") /\ call.collect) =>
    LET n == Len(call.tag.vs)
    IN /\ Returned
       /\ Len(Errs) = Cardinality(Mismatches)
       /\ \A i \in Mismatches :
            \E e \in 1..Len(Errs) : Contains(Errs[e], T_at \o ChildPath(i) \o <<44>>)
       /\ OutAt.t = (IF call.tag.list THEN "list" ELSE "map")
       /\ Len(OutAt.es) = n
       /\ \A i \in (1..n) \ Mismatches : TreeAt(OutAt, <<ChildKey(i)>>) = call.tag.vs[i]

\* validate({a: 1, b: 'x'}, {'`$CHILD`': '`$NUMBER`'}) has recorded one error,
\* for b.
C23_MapChildren ==
  /\ Done("validate", "child") /\ call.collect /\ Returned
  /\ ~call.tag.list /\ ~call.tag.nested
  /\ call.tag.vs = <<Num(1), Str(K_x)>>
  /\ Len(Errs) = 1 /\ Contains(Errs[1], T_at \o K_b)
  /\ TreeAt(Out, <<K_a>>) = Num(1)

\* validate(['x'], ['`$CHILD`', '`$NUMBER`']) has returned ['x'] and recorded
\* no error: `$CHILD` stores the first data element itself in slot 0 and
\* resets keyI to 0, and the key loop then moves on to slot 1.
C23_ListFirst ==
  /\ Done("validate", "child") /\ call.collect /\ Returned
  /\ call.tag.list /\ ~call.tag.nested /\ ~call.tag.absent
  /\ call.tag.vs = <<Str(K_x)>>
  /\ Errs = << >>
  /\ Out = TList(<<Str(K_x)>>)

\* validate([1, 1, 'x'], ['`$CHILD`', '`$NUMBER`']) has recorded no error and
\* its output still holds the template in slot 2: the key loop ends after the
\* two keys the shape list had on entry.
C23_ListThird ==
  /\ Done("validate", "child") /\ call.collect /\ Returned
  /\ call.tag.list /\ ~call.tag.nested
  /\ call.tag.vs = <<Num(1), Num(1), Str(K_x)>>
  /\ Errs = << >>
  /\ TreeAt(Out, <<NatToStr(2)>>) = R_NUMBER

---------------------------------------------------------------------------
(* Termination of the top-level calls.                                     *)

\* The call in progress is a call of transform or validate; both run inject
\* on the spec.
Injecting == op \in {"transform", "validate"}

\* C24: every call of transform or validate (and so every run of inject
\* they start) on a finite acyclic data tree and spec tree ends: it returns
\* or raises, whatever keys and strings the data holds.
C24_Terminates == (pc = "called" /\ Injecting) ~> (pc = "done")

\* validate({'`$CHILD`': 1}, {'`$CHILD`': '`$NUMBER`'}) is still running after
\* MaxLoop iterations of the key loop of the shape map: each key:pre of the
\* key '`$CHILD`' pushes the data key '`$CHILD`' onto the key list again.
C24_Unending ==
  /\ pc = "running" /\ op = "validate" /\ call.fam = "wild"
  /\ ~call.tag.nested /\ ~call.tag.list
  /\ call.tag.k = R_CHILD.s /\ call.tag.v = Num(1)
  /\ call.tag.shape = ChildShape(FALSE)

\* The calls that do not end are those of validate with the shape
\* {'`$CHILD`': ..} on a data map that has the key '`$CHILD`'.
C24_OnlyChildKey ==
  pc = "running" =>
    /\ op = "validate" /\ call.fam = "wild"
    /\ ~call.tag.list /\ call.tag.k = R_CHILD.s
    /\ call.tag.shape = ChildShape(FALSE)

\* A call with `$EACH`, `$PACK`, `$ONE` or the list form of `$CHILD` over data
\* spelled like directives has ended.
C24_WildEnded ==
  /\ pc = "done" /\ Injecting /\ call.fam = "wild"
  /\ call.tag.k = R_PACK.s /\ call.tag.v = R_EACH

---------------------------------------------------------------------------
(* The dispatch of directives.                                             *)

\* The invocations of store functions the engine has made in the last call.
Invocations == SelectSeq(log, LAMBDA e : e.ev = "invoke")

\* The sibling 'k' of the injected string, as the output holds it.
SiblingOut == TreeAt(Out, <<IF call.tag.list THEN NatToStr(1) ELSE K_y>>)

\* C25: in transform({a: 5}, spec, {f: function, $G: function}) a store
\* function is invoked only for a string that is one whole reference
\* starting with '$'; a reference inside a longer string invokes nothing and
\* leaves the other entry of the parent in place; the function reached by
\* the reference `f` is returned uninvoked.
C25_Dispatch ==
  Done("transform", "dispatch") =>
    /\ Returned
    /\ \A i \in 1..Len(Invocations) :
         /\ call.tag.form = "full"
         /\ StartsWith(Invocations[i].ref.s, S_DS)
    /\ call.tag.form # "full" =>
         /\ Invocations = << >>
         /\ Len(Out.es) = 2
         /\ SiblingOut = Str(K_k)
    /\ (call.tag.form = "full" /\ call.tag.ref = K_f) =>
         /\ Invocations = << >>
         /\ TreeAt(Out, <<IF call.tag.list THEN NatToStr(0) ELSE K_x>>) = Fn(K_f)

\* transform({a: 5}, ['x`$DELETE`', 'k'], ..) has invoked `$DELETE` with the
\* full flag off and returned ['x']: the directive removed slot 0, the
\* string 'x' then replaced 'k'.
C25_PartialInvoked ==
  /\ Done("transform", "dispatch") /\ Returned
  /\ call.tag.list /\ call.tag.form = "before" /\ call.tag.ref = DispatchRef(R_DELETE.s)
  /\ Len(Invocations) = 1
  /\ Invocations[1].fn = DispatchRef(R_DELETE.s) /\ ~Invocations[1].full
  /\ Out = TList(<<Str(K_x)>>)

\* transform({a: 5}, {x: '`f`', y: 'k'}, {f: function, ..}) has returned the
\* function in x without invoking it.
C25_Uninvoked ==
  /\ Done("transform", "dispatch") /\ Returned
  /\ ~call.tag.list /\ call.tag.form = "full" /\ call.tag.ref = K_f
  /\ Invocations = << >>
  /\ TreeAt(Out, <<K_x>>) = Fn(K_f)

\* The statement holds for every string but those that hold a reference
\* starting with '$' between other text.
C25_FullOnly ==
  \/ (Done("transform", "dispatch") /\ call.tag.form # "full"
        /\ StartsWith(call.tag.ref, S_DS))
  \/ C25_Dispatch

---------------------------------------------------------------------------
(* The phases of the key loop.                                             *)

\* The begins and ends of phases noted in the last call, and those of the
\* keys of node n.
Phases == SelectSeq(log, LAMBDA e : e.ev \in {"begin", "end"})
PhasesOf(n) == SelectSeq(Phases, LAMBDA e : e.node = n)
PhaseNodes == {Phases[i].node : i \in 1..Len(Phases)}

\* Event f may come next after event e among the phase events of one node.
Follows(e, f) ==
  CASE e.ev = "begin" ->
         f.ev = "end" /\ f.mode = e.mode /\ f.key = e.key
    [] e.ev = "end" /\ e.mode = S_MKEYPRE /\ e.ref # UNDEF ->
         f.ev = "begin" /\ f.mode = S_MVAL /\ f.key = e.key
    [] e.ev = "end" /\ e.mode = S_MKEYPRE /\ e.ref = UNDEF ->
         f.ev = "begin" /\ f.mode = S_MKEYPRE /\ f.keyI = e.keyI + 1
    [] e.ev = "end" /\ e.mode = S_MVAL ->
         f.ev = "begin" /\ f.mode = S_MKEYPOST /\ f.key = e.key
    [] e.ev = "end" /\ e.mode = S_MKEYPOST ->
         f.ev = "begin" /\ f.mode = S_MKEYPRE /\ f.keyI = e.keyI + 1

\* The phase events of node n are those of a loop that takes the keys one
\* at a time, each through key:pre, val and key:post in this order, or
\* through key:pre alone when it returns no key, and goes on from the keyI
\* the child state holds at the end.
InPhaseOrder(n) ==
  LET es == PhasesOf(n)
  IN /\ es[1].ev = "begin" /\ es[1].mode = S_MKEYPRE /\ es[1].keyI = 0
     /\ \A i \in 1..(Len(es) - 1) : Follows(es[i], es[i + 1])
     /\ es[Len(es)].ev = "end"
     /\ \/ es[Len(es)].mode = S_MKEYPOST
        \/ es[Len(es)].mode = S_MKEYPRE /\ es[Len(es)].ref = UNDEF

\* The phase events of a child node lie between the begin and the end of
\* the val phase of its key.
ChildrenInside ==
  \A i \in 1..Len(Phases) :
    (Phases[i].ev = "begin" /\ Phases[i].mode = S_MVAL /\ IsRef(Phases[i].ref)) =>
      LET ends == {j \in (i + 1)..Len(Phases) :
                     /\ Phases[j].node = Phases[i].node /\ Phases[j].ev = "end"
                     /\ Phases[j].mode = S_MVAL /\ Phases[j].key = Phases[i].key}
          j == CHOOSE x \in ends : \A y \in ends : x <= y
      IN \A c \in 1..Len(Phases) : Phases[c].node = Phases[i].ref => (i < c /\ c < j)

\* C26: in a call of transform or validate that returns, the key loop of
\* every node runs the phases of each key in the order key:pre, val,
\* key:post, the phases of one key never between those of another key of the
\* node and the injection of the child's descendants within the val phase;
\* a key whose key:pre returns no key gets no val and no key:post phase;
\* the loop goes on from the keyI of the child state.
C26_ThreePhases ==
  (pc = "done" /\ Injecting /\ Returned) =>
    /\ \A n \in PhaseNodes : InPhaseOrder(n)
    /\ ChildrenInside

\* validate({a: 1, b: 'x'}, {'`$CHILD`': '`$NUMBER`'}, undefined, []) has run
\* the loop of the shape map over three keys: '`$CHILD`' through key:pre
\* alone, which returned no key, then a and b, which it pushed, through all
\* three phases.
C26_Witness ==
  /\ Done("validate", "child") /\ call.collect /\ Returned
  /\ ~call.tag.list /\ ~call.tag.nested /\ call.tag.vs = <<Num(1), Str(K_x)>>
  /\ \E n \in PhaseNodes :
       LET es == PhasesOf(n)
       IN /\ Len(es) = 14
          /\ es[2].ev = "end" /\ es[2].mode = S_MKEYPRE
          /\ es[2].key = Str(R_CHILD.s) /\ es[2].ref = UNDEF
          /\ es[3].ev = "begin" /\ es[3].mode = S_MKEYPRE
          /\ es[3].key = Str(K_a) /\ es[3].keyI = 1
          /\ es[5].mode = S_MVAL /\ es[7].mode = S_MKEYPOST
          /\ es[9].key = Str(K_b) /\ es[14].mode = S_MKEYPOST

---------------------------------------------------------------------------
(* The order of the keys in the key loop.                                  *)

\* The keys of the root node of the spec in the order the key loop took
\* them, and the keys the recorded errors name, in the order recorded.
RootKeysTaken ==
  LET pres == SelectSeq(Phases, LAMBDA e : /\ e.ev = "begin" /\ e.mode = S_MKEYPRE
                                           /\ Len(e.path) = 2)
  IN [i \in 1..Len(pres) |-> pres[i].key.s]
Names(msg, k) == Contains(msg, T_at \o k \o <<44>>)
ErrKeys ==
  LET named == SelectSeq(Errs, LAMBDA msg : \E k \in {K_a, K_b, K_cD} : Names(msg, k))
  IN [i \in 1..Len(named) |-> CHOOSE k \in {K_a, K_b, K_cD} : Names(named[i], k)]
Plain(ks) == SelectSeq(ks, LAMBDA k : ~Includes(k, S_DS[1]))
Dollar(ks) == SelectSeq(ks, LAMBDA k : Includes(k, S_DS[1]))

\* C27: the key loop of a map takes the keys without '$' first, in sorted
\* order, then the keys with '$' in sorted order, whatever order the map
\* was written in; the errors recorded for the keys come in that order.
C27_KeyOrder ==
  (Done("validate", "order") /\ call.collect) =>
    /\ Returned
    /\ RootKeysTaken = SortStrs(Plain(call.tag.keys)) \o SortStrs(Dollar(call.tag.keys))
    /\ ErrKeys = SelectSeq(RootKeysTaken, LAMBDA k : k # S_DOPEN)

\* validate(.., {b: '`$NUMBER`', a: '`$NUMBER`'}, undefined, []) has taken b
\* before a and recorded the error for b before the error for a.
C27_AsWritten ==
  /\ Done("validate", "order") /\ call.collect /\ Returned
  /\ call.tag.keys = <<K_b, K_a>>
  /\ RootKeysTaken = <<K_b, K_a>>
  /\ ErrKeys = <<K_b, K_a>>

\* The keys without '$' are taken in the order they were written, then the
\* keys with '$' in sorted order.
C27_DollarSorted ==
  (Done("validate", "order") /\ call.collect) =>
    /\ RootKeysTaken = Plain(call.tag.keys) \o SortStrs(Dollar(call.tag.keys))
    /\ ErrKeys = SelectSeq(RootKeysTaken, LAMBDA k : k # S_DOPEN)

\* validate(.., {'`$OPEN`': true, c$: '`$NUMBER`', a: '`$NUMBER`'}, ..) has
\* taken a, then '`$OPEN`', then c$.
C27_DollarLast ==
  /\ Done("validate", "order") /\ call.collect /\ Returned
  /\ call.tag.keys = <<S_DOPEN, K_cD, K_a>>
  /\ RootKeysTaken = <<K_a, S_DOPEN, K_cD>>

---------------------------------------------------------------------------
(* `$MERGE` of the top-level data.                                         *)

\* The entries of map tree d, with those of own in place of or after them.
Overlay(d, own) ==
  TMap(SelectSeq(d.es, LAMBDA e : \A i \in 1..Len(own) : own[i].k # e.k) \o own)

\* C28: after transform(d, spec) with the map {'`$MERGE`': '', ..own..} at
\* the root of spec or under one or two keys, that map holds the entries of
\* the top-level data d, its own entries in place of those of d with the
\* same key, and no `$MERGE` key.
C28_MergeTop ==
  Done("transform", "mergetop") =>
    /\ Returned
    /\ DeepEqual(TreeAt(Out, TopPath(call.tag.depth)), Overlay(call.data, call.tag.own))

\* transform({x: 1, y: {z: 2}}, {'`$MERGE`': '', x: 9}) has returned
\* {x: 9, y: {z: 2}}.
C28_AtRoot ==
  /\ Done("transform", "mergetop") /\ Returned
  /\ call.tag.depth = 0 /\ call.tag.own = <<TE(K_x, Num(9))>>
  /\ call.data = TMap(<<TE(K_x, Num(1)), TE(K_y, TMap(<<TE(K_z, Num(2))>>))>>)
  /\ DeepEqual(Out, TMap(<<TE(K_x, Num(9)), TE(K_y, TMap(<<TE(K_z, Num(2))>>))>>))

\* transform({x: 1}, {p: {'`$MERGE`': '', v: 7}}) has returned {p: {v: 7}}:
\* nothing of the data is in the map.
C28_Nested ==
  /\ Done("transform", "mergetop") /\ Returned
  /\ call.tag.depth = 1 /\ call.tag.own = <<TE(K_v, Num(7))>>
  /\ call.data = TMap(<<TE(K_x, Num(1))>>)
  /\ Out = TMap(<<TE(K_p, TMap(<<TE(K_v, Num(7))>>))>>)

\* transform({x: 1}, {p: {q: {'`$MERGE`': ''}}}) has raised a TypeError.
C28_Raised ==
  /\ Done("transform", "mergetop") /\ thrown = "TypeError"
  /\ call.tag.depth = 2 /\ call.tag.own = << >>
  /\ call.data = TMap(<<TE(K_x, Num(1))>>)

\* At the root the statement holds.
C28_RootOnly == (Done("transform", "mergetop") /\ call.tag.depth > 0) \/ C28_MergeTop

---------------------------------------------------------------------------
(* The calls of the modify callback.                                       *)

\* The positions in the log of the begins of val phases, and for such a
\* position the position of the end of that val phase.
ValBegins == {i \in 1..Len(log) : log[i].ev = "begin" /\ log[i].mode = S_MVAL}
ValEnd(i) ==
  LET ends == {j \in (i + 1)..Len(log) :
                 /\ log[j].ev = "end" /\ log[j].mode = S_MVAL
                 /\ log[j].node = log[i].node /\ log[j].key = log[i].key}
  IN CHOOSE j \in ends : \A x \in ends : j <= x
ModifyCalls == {i \in 1..Len(log) : log[i].ev = "modify"}

\* The val phase begun at position i ends with a call of the callback for
\* the value at its key: the last thing noted in the phase, after all that
\* was noted of the value and its descendants.
ModifiedLast(i) ==
  LET e == log[ValEnd(i) - 1]
  IN e.ev = "modify" /\ e.node = log[i].node /\ e.key = log[i].key

\* C29: in transform(d, spec, undefined, modify) the callback is called for
\* every value the engine injects, those of the lists and maps that `$EACH`
\* and `$PACK` build included, each time after the injection of the value
\* and of its descendants, and last for the root.
C29_ModifyEvery ==
  Done("transform", "modify") =>
    /\ Returned
    /\ \A i \in ValBegins : ModifiedLast(i)
    /\ log[Len(log)].ev = "modify" /\ log[Len(log)].key = Str(S_DTOP)
    /\ Cardinality(ModifyCalls) = Cardinality(ValBegins) + 1

\* transform({items: [..two items..]}, {list: ['`$EACH`', 'items', {v: '`.n`'}]},
\* undefined, modify) has injected the two maps `$EACH` built and their
\* entries v, and has called the callback for none of them.
C29_EachSkipped ==
  /\ Done("transform", "modify") /\ Returned
  /\ call.tag.kind = "each" /\ call.data = DataItems
  /\ Cardinality({i \in ValBegins : log[i].key = Str(K_v)}) = 2
  /\ \A i \in ModifyCalls : log[i].key # Str(K_v)
  /\ Cardinality({i \in ValBegins : ~ModifiedLast(i)}) = 4

\* transform({a: 1, b: {y: 2}}, {x: '`a`', y: {z: '`b.y`', v: [1, '`a`']}},
\* undefined, modify) has called the callback seven times, for y after z,
\* v and the elements of v.
C29_Plain ==
  /\ Done("transform", "modify") /\ Returned
  /\ call.tag.kind = "plain" /\ call.spec.t = "map"
  /\ Cardinality(ModifyCalls) = 7
  /\ \E i, j \in ModifyCalls :
       /\ i < j /\ log[i].key = Str(NatToStr(1)) /\ log[i].ref = Num(1)
       /\ log[j].key = Str(K_y)

\* For a spec without `$EACH` and `$PACK` the statement holds.
C29_OwnValues == (Done("transform", "modify") /\ call.tag.kind # "plain") \/ C29_ModifyEvery

---------------------------------------------------------------------------
(* validate: the error lists of $ONE.                                      *)

\* The first alternative that validates the data with zero errors, 0 when
\* there is none.
FirstFit ==
  LET fits == {i \in 1..Len(call.tag.alts) : Validates(call.tag.d, call.tag.alts[i])}
  IN IF fits = {} THEN 0 ELSE CHOOSE i \in fits : \A j \in fits : i <= j

\* The number of alternatives the call validated the data against: every
\* alternative of Alts holds one type directive, which is invoked once when
\* the alternative is validated.
Probed == Len(SelectSeq(Invocations, LAMBDA e : e.fn # Invocations[1].fn))

\* The message of $ONE: 'Expected one of ...'.
IsOneOf(msg) == SubSeq(msg, 1, Len(T_Expected) + Len(T_oneof)) = T_Expected \o T_oneof

\* C30: validate(d, ['`$ONE`', alt, ..], undefined, errs), at the root or
\* under a key: no error of an individual alternative is in errs; when no
\* alternative matches, errs gains exactly one error, the one of $ONE for
\* that position, and every alternative was validated; when an alternative
\* matches, errs gains none and no alternative after the first match was
\* validated.
C30_OneIsolated ==
  (Done("validate", "one") /\ call.collect) =>
    /\ Returned
    /\ Probed = IF FirstFit = 0 THEN Len(call.tag.alts) ELSE FirstFit
    /\ IF FirstFit = 0
       THEN Len(Errs) = 1 /\ IsOneOf(Errs[1])
       ELSE Errs = << >>

\* validate({p: {a: 1}}, {p: ['`$ONE`', {a: '`$NUMBER`'}, '`$STRING`']},
\* undefined, errs): the first alternative matches and the second was not
\* validated, and errs holds 'Expected array at p, found object: {a:1}'.
C30_MatchGains ==
  /\ Done("validate", "one") /\ call.collect /\ Returned
  /\ call.tag.nested /\ call.tag.d = TMap(<<TE(K_a, Num(1))>>)
  /\ call.tag.alts = <<TMap(<<TE(K_a, R_NUMBER)>>), R_STRING>>
  /\ FirstFit = 1 /\ Probed = 1
  /\ Len(Errs) = 1 /\ ~IsOneOf(Errs[1])
  /\ Contains(Errs[1], T_Expected \o T_array \o T_at \o K_p)

\* validate({p: {a: 1}}, {p: ['`$ONE`', '`$STRING`']}, undefined, errs): no
\* alternative matches, and errs holds two errors for p, the one of $ONE
\* and 'Expected array at p, found object: {a:1}'.
C30_MissGainsTwo ==
  /\ Done("validate", "one") /\ call.collect /\ Returned
  /\ call.tag.nested /\ call.tag.d = TMap(<<TE(K_a, Num(1))>>)
  /\ call.tag.alts = <<R_STRING>>
  /\ FirstFit = 0 /\ Probed = 1
  /\ Len(Errs) = 2 /\ IsOneOf(Errs[1])
  /\ Contains(Errs[2], T_Expected \o T_array \o T_at \o K_p)

\* For data that is not a map the statement holds, and for every data the
\* errors of the alternatives stay out of errs: errs holds the error of
\* $ONE at most once, and besides it only the error of validation for the
\* list of alternatives.
C30_Scalars ==
  (Done("validate", "one") /\ call.collect) =>
    /\ call.tag.d.t # "map" => C30_OneIsolated
    /\ Probed = IF FirstFit = 0 THEN Len(call.tag.alts) ELSE FirstFit
    /\ Cardinality({i \in 1..Len(Errs) : IsOneOf(Errs[i])}) = IF FirstFit = 0 THEN 1 ELSE 0
    /\ \A i \in 1..Len(Errs) :
         IsOneOf(Errs[i]) \/ SubSeq(Errs[i], 1, Len(T_Expected) + Len(T_array)) = T_Expected \o T_array

\* validate('A', ['`$ONE`', '`$NUMBER`', '`$STRING`'], undefined, errs): the
\* second alternative matches after the first recorded an error in its own
\* list, and errs is empty.
C30_SecondFits ==
  /\ Done("validate", "one") /\ call.collect /\ Returned
  /\ ~call.tag.nested /\ call.tag.d = Str(K_A)
  /\ call.tag.alts = <<R_NUMBER, R_STRING>>
  /\ FirstFit = 2 /\ Probed = 2 /\ Errs = << >>

====
